---------------------------- MODULE Spec2Model ----------------------------
(***************************************************************************)
(* freertos-mcpp: the condition_variable built from a length-one           *)
(* shallow_copy_queue (the relay, queue_) and a waiter counter (waiters_), *)
(* used by threads under a freertos::mutex.                                *)
(*                                                                         *)
(* Every thread runs application code of the usual shape: take the mutex,  *)
(* then call notify_one / notify_all / wait_for / a predicate wait any     *)
(* number of times, then release the mutex.  The kernel may preempt a      *)
(* thread between any two kernel calls, so each action below is one        *)
(* stretch of code that ends at a blocking kernel call.                    *)
(***************************************************************************)
EXTENDS Integers, Sequences, FiniteSets

(***************************************************************************)
(* Bounds of the model.                                                    *)
(***************************************************************************)
NumThreads == 3
MaxCalls == 4
MaxTicks == 6
MaxAhead == 3
MaxFlagOps == 5
MaxQueueOps == 4
max_size == 2
MaxCsOps == 6
MaxSemOps == 4
MaxSemValue == 2
MaxMakeOps == 5
MaxHeap == 4
MaxOwnerOps == 3
MaxExits == 2
MaxServices == 2

(***************************************************************************)
(* Program constants.                                                      *)
(***************************************************************************)
\* shallow_copy_queue<waiter_count_t, 1> queue_;
MAX_SIZE == 1
\* waiter_count_t = UBaseType_t: an unsigned machine word (16 bits here).
WordBits == 16

Modulus_narrow == 2 ^ 1

Modulus == 2 ^ WordBits

Threads == 1 .. NumThreads

\* get_locking_thread() of an unlocked mutex: nullptr.
nullptr == 0

\* The wait times a caller can pass: INFINITY (portMAX_DELAY), a positive
\* number of ticks, and 0 ticks.
Durations == {"infinite", "finite", "zero"}

VARIABLES
    pc,          \* where each thread is
    holder,      \* mutex: the locking thread, or nullptr
    waiters_,    \* condition_variable::waiters_
    queue_,      \* condition_variable::queue_ (the relay): a sequence of at most MAX_SIZE counts
    rel_time,    \* wait_for's rel_time argument, per thread
    success,     \* wait_for's local: the result of queue_.pop_front
    rx_waiters,  \* wait_for's local: the count received from the relay
    status,      \* the cv_status the thread's last wait_for returned ("none": nothing returned since the lock was taken)
    caller,      \* which overload called wait_for: "plain", "wait_pred", "until_pred"
    ready,       \* the application condition the predicates read (guarded by the mutex)
    pret,        \* what the thread's last predicate wait returned
    calls,       \* number of API calls made so far (bounded by MaxCalls)
    sig,         \* history: the strongest notification aimed at the thread during its current/last wait
    scen,        \* history: the kind of run so far
    debt,        \* history: notify_one calls not yet answered by a wake
    elig,        \* history: the threads that were blocked when the relay's value was sent by notify_one
    tally        \* history (SpecCount only): wake-ups issued by accepted notifies, wait_for calls that returned no_timeout

\* The state of the condition_variable, its mutex and its threads.
cvVars == <<pc, holder, waiters_, queue_, rel_time, success, rx_waiters, status,
            caller, ready, pret, calls, sig, scen, debt, elig, tally>>

VARIABLES
    now,         \* the kernel's tick count (xTaskGetTickCount), a TickType_t
    abs_time,    \* wait_until's deadline, a tick_timer::time_point
    tpc,         \* where the thread calling wait_until is
    remaining,   \* the ticks left of the wait time the thread blocked with
    clock,       \* history: the ticks since the start, not wrapped
    due          \* history: the value of clock at the deadline

timeVars == <<now, abs_time, tpc, remaining, clock, due>>

VARIABLES
    mpc,                       \* where each thread is in its use of the mutex API
    mret,                      \* what the thread's last try_lock returned
    mseen,                     \* history: the holder at the thread's last try_lock
    is_recursive,              \* the object is a recursive_mutex (created by xSemaphoreCreateRecursiveMutexStatic)
    configUSE_TRACE_FACILITY,  \* the build option that selects thread::id
    uxTaskNumber,              \* the kernel's task number of each thread (trace facility)
    uxRecursiveCallCount,      \* the kernel's reentry count of a recursive mutex
    depth                      \* history: successful locks minus unlocks, per thread

mtxVars == <<mpc, mret, mseen, is_recursive, configUSE_TRACE_FACILITY, uxTaskNumber,
             uxRecursiveCallCount, depth>>

VARIABLES
    bits,        \* the event group's flags (uxEventBits), as the set of the bit numbers that are set
    fpc,         \* where each thread is in its use of the flags: "idle" or "blocked" in a wait
    fwait,       \* the arguments of the thread's current / last condition_flags::wait
    fret,        \* the flags the thread's last wait returned
    fdone,       \* history: how the thread's last wait ended: "met", "timeout", or "none" (not ended)
    tq,          \* the timer service's command queue: the set requests pended from interrupts
    fcalls,      \* history: number of flags API calls made so far (bounded by MaxFlagOps)
    trip,        \* history: progress of a set / shared wait / shared wait / wait / wait sequence
    owed         \* history: the threads an interrupt's set was called for while they were blocked

flagVars == <<bits, fpc, fwait, fret, fdone, tq, fcalls, trip, owed>>

VARIABLES
    items,       \* the elements stored in the queue, front first
    qop,         \* the queue member function called last ("none" before the first call)
    qin_isr,     \* this_cpu::is_in_isr() during that call
    qret,        \* the bool that call returned (FALSE if it returns none)
    qnum,        \* the size_type that call returned (0 if it returns none)
    qout,        \* the element that call copied out (0 if none)
    qcalls,      \* history: number of queue calls made so far (bounded by MaxQueueOps)
    qwait,       \* to_ticks(waittime) of that call (0 if it takes none)
    qpc,         \* the calling thread: "idle", "blocked" in a call, or "trapped" (configASSERT failed)
    qblk         \* the call the thread is blocked in (NoCall if none)

queueVars == <<items, qop, qin_isr, qret, qnum, qout, qcalls, qwait, qpc, qblk>>

VARIABLES
    tstate,          \* the joined thread: "running", "signalled" (signal_exit done, not yet deleted), "terminated"
    exit_condition,  \* the thread's exit condition pointer (thread local storage slot): nullptr or the joiner whose exit_cond it points to
    jpc,             \* where each joining thread is in thread::join()
    exit_cond,       \* join()'s local condition_flags of each joiner: TRUE when cflag::max() is set
    jhigher,         \* the joining threads have a higher priority than the thread that runs ~thread()
    path,            \* who runs ~thread(): "self" (vTaskExitHandler) or "owner" (another thread)
    jsaw             \* history: the joined thread's state when the joiner's join() returned

joinVars == <<tstate, exit_condition, jpc, exit_cond, jhigher, path, jsaw>>

VARIABLES
    cs_in_isr,          \* this_cpu::is_in_isr() of the context that uses the guards
    cs_locked,          \* history: which critical_section instances are locked, in the order they were locked
    restore_,           \* each critical_section instance's restore_ member
    uxCriticalNesting,  \* the kernel's nesting count of taskENTER_CRITICAL
    basepri,            \* the interrupt mask: 0 (interrupts enabled) or 1 (masked up to the kernel's priority)
    cs_before,          \* history: <<uxCriticalNesting, basepri>> before the first lock
    cs_nested,          \* history: every unlock so far was of the guard locked last
    cs_calls            \* history: number of lock / unlock calls made so far (bounded by MaxCsOps)

csVars == <<cs_in_isr, cs_locked, restore_, uxCriticalNesting, basepri, cs_before,
            cs_nested, cs_calls>>

VARIABLES
    count,       \* the semaphore's count (uxQueueMessagesWaiting of its queue)
    sem_max,     \* the semaphore's maximum count (1 for a binary_semaphore)
    spc,         \* where each thread is: "idle", "blocked" in take, "giving" (inside give's loop)
    stimeout,    \* the wait time of the thread's current / last take
    supdate,     \* give's update: the gives the thread's loop has still to make
    ssuccess,    \* give's success: the result of the loop's last xSemaphoreGive
    slast,       \* the call the thread or the interrupt handler returned from last: "none", "take", "give"
    sret,        \* what that call returned
    strapped,    \* a configASSERT has failed
    scalls,      \* history: number of semaphore calls made so far (bounded by MaxSemOps)
    sgive        \* history: the give each thread is inside (NoGive if none)

semVars == <<count, sem_max, spc, stimeout, supdate, ssuccess, slast, sret, strapped, scalls,
             sgive>>

VARIABLES
    heap_free,             \* the kernel heap's free memory, in blocks
    alive,                 \* the threads created by make_thread and not deleted: the memory each uses
    mk_res,                \* make_thread's res, the result of its last xTaskCreate: "none", "pass", "fail"
    mk_ret,                \* what the last make_thread returned: "none", "thread", "nullptr"
    mk_trapped,            \* make_thread's configASSERT has failed
    configASSERT_defined,  \* the build defines configASSERT (else it expands to nothing)
    mk_calls               \* history: number of calls made so far (bounded by MaxMakeOps)

makeVars == <<heap_free, alive, mk_res, mk_ret, mk_trapped, configASSERT_defined, mk_calls>>

VARIABLES
    pthread_,    \* thread_owner::pthread_: the owned thread, or nullptr
    opc,         \* where each thread is in its use of the owner: "idle", "waiting" in join(), "trapped"
    ohist,       \* history: "empty" (never owned a thread), "owning", "joined", "detached"
    ocalls       \* history: number of join / detach calls made so far (bounded by MaxOwnerOps)

ownerVars == <<pthread_, opc, ohist, ocalls>>

VARIABLES
    tick_bytes,  \* sizeof(TickType_t), the value_type of cflag and events
    int_bits,    \* the width of int in the build
    set_mask,    \* the cflag::max() signal_exit passed to set(), as the set of its bit numbers
    wait_mask,   \* the cflag::max() join() passed to shared_wait_any_for()
    xflags,      \* the exit condition's event bits
    xexit,       \* the terminating thread: "running", "signalled", "trapped" (a kernel assertion failed)
    xjoin,       \* the joining thread: "idle", "waiting", "done", "trapped"
    xret         \* the flags the joiner's wait returned

maskVars == <<tick_bytes, int_bits, set_mask, wait_mask, xflags, xexit, xjoin, xret>>

VARIABLES
    ts_alive,     \* per timed_service object: whether it is constructed
    ts_name,      \* the name argument of its constructor (NoName: defaulted)
    pcTimerName,  \* the name the kernel's timer holds
    ts_reload,    \* the kernel timer's reload mode
    ts_owner,     \* the kernel timer's ID
    ts_got        \* what the last get_name() returned (NoName: not called)

svcVars == <<ts_alive, ts_name, pcTimerName, ts_reload, ts_owner, ts_got>>

\* The condition_variable's state without the mutex holder.
cvRest == <<pc, waiters_, queue_, rel_time, success, rx_waiters, status,
            caller, ready, pret, calls, sig, scen, debt, elig, tally>>

\* Everything but the condition_variable's state.
nonCv == <<timeVars, mtxVars, flagVars, queueVars, joinVars, csVars, semVars, makeVars, ownerVars, maskVars, svcVars>>

\* Everything but the tick timer's state.
nonTime == <<cvVars, mtxVars, flagVars, queueVars, joinVars, csVars, semVars, makeVars, ownerVars, maskVars, svcVars>>

\* Everything but the mutex's state.
nonMutex == <<cvRest, timeVars, flagVars, queueVars, joinVars, csVars, semVars, makeVars, ownerVars, maskVars, svcVars>>

\* Everything but the flags' state.
nonFlags == <<cvVars, timeVars, mtxVars, queueVars, joinVars, csVars, semVars, makeVars, ownerVars, maskVars, svcVars>>

\* Everything but the queue's state.
nonQueue == <<cvVars, timeVars, mtxVars, flagVars, joinVars, csVars, semVars, makeVars, ownerVars, maskVars, svcVars>>

\* Everything but the joined thread's state.
nonJoin == <<cvVars, timeVars, flagVars, queueVars, csVars, semVars, makeVars, ownerVars, maskVars, svcVars>>

\* Everything but the critical sections' state.
nonCs == <<cvVars, timeVars, mtxVars, flagVars, queueVars, joinVars, semVars, makeVars, ownerVars, maskVars, svcVars>>

\* Everything but the semaphore's state.
nonSem == <<cvVars, timeVars, mtxVars, flagVars, queueVars, joinVars, csVars, makeVars, ownerVars, maskVars, svcVars>>

\* Everything but the state of thread creation.
nonMake == <<cvVars, timeVars, mtxVars, flagVars, queueVars, joinVars, csVars, semVars, ownerVars, maskVars, svcVars>>

\* Everything but the thread_owner, its thread's exit condition and the thread ids.
nonOwner == <<cvVars, timeVars, flagVars, queueVars, csVars, semVars, makeVars, maskVars, svcVars>>

\* Everything but the exit mask and its use.
nonMask == <<cvVars, timeVars, mtxVars, flagVars, queueVars, joinVars, csVars, semVars, makeVars, ownerVars, svcVars>>

\* Everything but the timed_service objects.
nonSvc == <<cvVars, timeVars, mtxVars, flagVars, queueVars, joinVars, csVars, semVars, makeVars, ownerVars, maskVars>>

vars == <<cvVars, nonCv>>

(***************************************************************************)
(* The kernel queue behind queue_ (queue.cpp).                             *)
(***************************************************************************)

push_front_overwrite(q, v) == <<v>>

\* queue::push_front with waittime 0: xQueueSendToFront fails on a full queue.
push_front(q, v) == IF Len(q) < MAX_SIZE THEN <<v>> \o q ELSE q

\* queue::replace: xQueueOverwrite of a length-one queue always succeeds.
replace(q, v) == <<v>>

\* queue::pop_front succeeds as soon as the queue holds an element.
pop_front_ready(q) == Len(q) > 0

pop_front_expires_late(q, d) == Len(q) = 0 /\ d = "finite"

\* queue::pop_front gives up (returns false) only on an empty queue and only
\* when the wait time can expire.
pop_front_expires(q, d) == Len(q) = 0 /\ d # "infinite"

(***************************************************************************)
(* condition_variable (condition_variable.cpp).                            *)
(***************************************************************************)

\* notify(waiters): leaves a previous unconsumed message in the queue.
notify(q, waiters) == push_front(q, waiters)

notify_one_unchecked(q, waiters) == notify(q, 1)

\* notify_one()
notify_one(q, waiters) == IF waiters > 0 THEN notify(q, 1) ELSE q

notify_all_unchecked(q, waiters) == notify(q, waiters)

\* notify_all()
notify_all(q, waiters) == IF waiters > 0 THEN notify(q, waiters) ELSE q

Min(a, b) == IF a < b THEN a ELSE b

rem_waiters_none(rx, waiters) == 0

rem_waiters_all(rx, waiters) == waiters

rem_waiters_stale(rx, waiters) == Min((rx - 1) % Modulus, waiters + 1)

\* auto rem_waiters = rx_waiters - 1; rem_waiters = std::min(rem_waiters, waiters_);
\* (unsigned arithmetic; waiters is the already decremented counter)
rem_waiters(rx, waiters) == Min((rx - 1) % Modulus, waiters)

chain_unchecked(q, ok, rx, waiters) ==
    IF rem_waiters(rx, waiters) > 0 THEN replace(q, rem_waiters(rx, waiters)) ELSE q

\* queue_ after the chaining step of wait_for
chain(q, ok, rx, waiters) ==
    IF ok /\ rem_waiters(rx, waiters) > 0 THEN replace(q, rem_waiters(rx, waiters)) ELSE q

\* return success ? cv_status::no_timeout : cv_status::timeout;
cv_status(ok) == IF ok THEN "no_timeout" ELSE "timeout"

(***************************************************************************)
(* History bookkeeping (not program state).                                *)
(***************************************************************************)

\* No wake-ups are counted.
NoTally == [on |-> FALSE, issued |-> 0, woken |-> 0]

\* tally after a step that issued i wake-ups and returned no_timeout w times
Tallied(i, w) ==
    IF tally.on THEN [tally EXCEPT !.issued = @ + i, !.woken = @ + w] ELSE tally

\* threads between wait_for's waiters_++ and its waiters_--
Registered == {t \in Threads : pc[t] \in {"pop", "relock"}}

\* threads that have not received anything yet: blocked (or about to block) on the relay
Blocked == {t \in Threads : pc[t] = "pop"}

Rank(s) == CASE s = "none" -> 0 [] s = "stale" -> 1 [] s = "chain" -> 2
             [] s = "one" -> 3 [] s = "sole" -> 4 [] s = "all" -> 5

Stronger(a, b) == IF Rank(a) >= Rank(b) THEN a ELSE b

\* sig after a notify call of the given kind ("one" / "all") that found waiters
MarkNotify(kind) ==
    [t \in Threads |->
        IF t \notin Registered THEN sig[t]
        ELSE IF kind = "all" THEN "all"
        ELSE IF Blocked = {t} /\ waiters_ = 1 THEN Stronger(sig[t], "sole")
        ELSE Stronger(sig[t], "one")]

\* sig after a chaining replace wrote the relay
MarkChain(wrote) ==
    [t \in Threads |->
        IF wrote /\ pc[t] = "pop" THEN Stronger(sig[t], "chain") ELSE sig[t]]

\* scen after a notify call of the given kind
ScenNotify(kind) ==
    IF waiters_ = 0 THEN scen
    ELSE IF kind = "all" THEN (IF scen = "fresh" THEN "all1" ELSE "mixed")
    ELSE IF scen \in {"fresh", "ones"} /\ Cardinality(Blocked) > debt THEN "ones"
    ELSE "mixed"

\* scen after a wait_for call with wait time d
ScenWait(d) ==
    IF d = "infinite" /\ scen \in {"fresh", "ones"} THEN scen ELSE "mixed"

(***************************************************************************)
(* Initial state: the mutex unlocked, condition_variable() constructed     *)
(* (queue_ empty, waiters_(0)), every thread outside the critical section. *)
(***************************************************************************)
\* The tick timer and the deadline wait, not in use.
TimeOff ==
    /\ now = 0
    /\ abs_time = 0
    /\ tpc = "idle"
    /\ remaining = 0
    /\ clock = 0
    /\ due = 0

\* The mutex API, not in use: a plain mutex, unlocked.
MutexOff ==
    /\ mpc = [t \in Threads |-> "idle"]
    /\ mret = [t \in Threads |-> "none"]
    /\ mseen = [t \in Threads |-> nullptr]
    /\ is_recursive = FALSE
    /\ configUSE_TRACE_FACILITY = FALSE
    /\ uxTaskNumber = [t \in Threads |-> 0]
    /\ uxRecursiveCallCount = 0
    /\ depth = [t \in Threads |-> 0]

\* A wait record of a thread that has not waited.
NoWait == [flags |-> {}, exclusive |-> FALSE, match_all |-> FALSE, d |-> "finite"]

\* No sequence in progress.
NoTrip == [who |-> nullptr, mask |-> {}, stage |-> 0]

\* condition_flags(): xEventGroupCreateStatic, no flag set, nobody waiting.
FlagsOff ==
    /\ bits = {}
    /\ fpc = [t \in Threads |-> "idle"]
    /\ fwait = [t \in Threads |-> NoWait]
    /\ fret = [t \in Threads |-> {}]
    /\ fdone = [t \in Threads |-> "none"]
    /\ tq = <<>>
    /\ fcalls = 0
    /\ trip = NoTrip
    /\ owed = {}

\* condition_variable(): queue_ empty, waiters_(0); the mutex unlocked and
\* every thread outside the critical section.
InitCv ==
    /\ pc = [t \in Threads |-> "idle"]
    /\ holder = nullptr
    /\ waiters_ = 0
    /\ queue_ = <<>>
    /\ rel_time = [t \in Threads |-> "infinite"]
    /\ success = [t \in Threads |-> FALSE]
    /\ rx_waiters = [t \in Threads |-> 0]
    /\ status = [t \in Threads |-> "none"]
    /\ caller = [t \in Threads |-> "plain"]
    /\ pret = [t \in Threads |-> "none"]
    /\ calls = 0
    /\ sig = [t \in Threads |-> "none"]
    /\ debt = 0
    /\ elig = Threads

\* The parts of the program a specification does not exercise stay as constructed.
\* No call the thread is blocked in.
NoCall == [op |-> "none", v |-> 0]

\* No queue call has been made; the queue is empty.
QueueOff ==
    /\ items = <<>>
    /\ qop = "none"
    /\ qin_isr = FALSE
    /\ qret = FALSE
    /\ qnum = 0
    /\ qout = 0
    /\ qcalls = 0
    /\ qwait = 0
    /\ qpc = "idle"
    /\ qblk = NoCall

\* The joined thread runs; nobody has called join.
JoinOff ==
    /\ tstate = "running"
    /\ exit_condition = nullptr
    /\ jpc = [t \in Threads |-> "idle"]
    /\ exit_cond = [t \in Threads |-> FALSE]
    /\ jhigher = FALSE
    /\ path = "self"
    /\ jsaw = [t \in Threads |-> "none"]

\* The critical_section instances.
Guards == {1, 2, 3}

\* No critical_section is in use.
CsOff ==
    /\ cs_in_isr = FALSE
    /\ cs_locked = <<>>
    /\ restore_ = [g \in Guards |-> 0]
    /\ uxCriticalNesting = 0
    /\ basepri = 0
    /\ cs_before = <<0, 0>>
    /\ cs_nested = TRUE
    /\ cs_calls = 0

\* The callers of the semaphore: the threads, and the interrupt handlers.
isr == 0
SemCallers == Threads \cup {isr}

\* The thread is in no give.  Of a give: the count it was called on (from),
\* its update argument (n), whether no other caller has changed the count
\* since (alone), and whether binary_semaphore's constructor made the call.
NoGive == [from |-> 0, n |-> 0, alone |-> TRUE, ctor |-> FALSE]

\* No semaphore call has been made.
SemOff ==
    /\ count = 0
    /\ sem_max = 1
    /\ spc = [t \in Threads |-> "idle"]
    /\ stimeout = [t \in Threads |-> "zero"]
    /\ supdate = [t \in Threads |-> 0]
    /\ ssuccess = [t \in Threads |-> TRUE]
    /\ slast = [t \in SemCallers |-> "none"]
    /\ sret = [t \in SemCallers |-> FALSE]
    /\ strapped = FALSE
    /\ scalls = 0
    /\ sgive = [t \in Threads |-> NoGive]

\* No thread has been created with make_thread.
MakeOff ==
    /\ heap_free = 0
    /\ alive = <<>>
    /\ mk_res = "none"
    /\ mk_ret = "none"
    /\ mk_trapped = FALSE
    /\ configASSERT_defined = TRUE
    /\ mk_calls = 0

\* No thread_owner is in use.
OwnerOff ==
    /\ pthread_ = nullptr
    /\ opc = [t \in Threads |-> "idle"]
    /\ ohist = "empty"
    /\ ocalls = 0

\* No exit mask has been computed.
MaskOff ==
    /\ tick_bytes = 2
    /\ int_bits = 32
    /\ set_mask = {}
    /\ wait_mask = {}
    /\ xflags = {}
    /\ xexit = "running"
    /\ xjoin = "idle"
    /\ xret = {}

\* No timed_service object is in use.
SvcOff ==
    /\ ts_alive = <<>>
    /\ ts_name = <<>>
    /\ pcTimerName = <<>>
    /\ ts_reload = <<>>
    /\ ts_owner = <<>>
    /\ ts_got = <<>>

InitOff == TimeOff /\ MutexOff /\ FlagsOff /\ QueueOff /\ JoinOff /\ CsOff /\ SemOff /\ MakeOff /\ OwnerOff /\ MaskOff /\ SvcOff

Init ==
    /\ InitOff
    /\ InitCv
    /\ tally = NoTally
    /\ ready = FALSE
    /\ scen = "fresh"

(***************************************************************************)
(* The mutex (mutex.h, mutex.cpp).                                         *)
(***************************************************************************)

\* mutex::lock(): semaphore::acquire() returns once the caller is the holder.
Lock(t) ==
    /\ pc[t] = "idle"
    /\ holder = nullptr
    /\ holder' = t
    /\ pc' = [pc EXCEPT ![t] = "cs"]
    /\ UNCHANGED <<waiters_, queue_, rel_time, success, rx_waiters, status,
                   caller, ready, pret, calls, sig, scen, debt, elig>>
    /\ UNCHANGED tally
    /\ UNCHANGED nonCv

\* mutex::unlock(): the holder releases the mutex.
Unlock(t) ==
    /\ pc[t] = "cs"
    /\ holder = t
    /\ holder' = nullptr
    /\ pc' = [pc EXCEPT ![t] = "idle"]
    /\ status' = [status EXCEPT ![t] = "none"]
    /\ pret' = [pret EXCEPT ![t] = "none"]
    /\ rel_time' = [rel_time EXCEPT ![t] = "infinite"]
    /\ sig' = [sig EXCEPT ![t] = "none"]
    /\ UNCHANGED <<waiters_, queue_, success, rx_waiters,
                   caller, ready, calls, scen, debt, elig>>
    /\ UNCHANGED tally
    /\ UNCHANGED nonCv

\* The application changes the condition while it holds the mutex.
SetReady(t) ==
    /\ pc[t] = "cs"
    /\ holder = t
    /\ ready' = ~ready
    /\ status' = [status EXCEPT ![t] = "none"]
    /\ pret' = [pret EXCEPT ![t] = "none"]
    /\ UNCHANGED <<pc, holder, waiters_, queue_, rel_time, success, rx_waiters,
                   caller, calls, sig, scen, debt, elig>>
    /\ UNCHANGED tally
    /\ UNCHANGED nonCv

(***************************************************************************)
(* Notifying (the caller holds the mutex).                                 *)
(***************************************************************************)
NotifyOne(t) ==
    /\ pc[t] = "cs"
    /\ calls < MaxCalls
    /\ calls' = calls + 1
    /\ queue_' = notify_one(queue_, waiters_)
    /\ sig' = IF waiters_ > 0 THEN MarkNotify("one") ELSE sig
    /\ scen' = ScenNotify("one")
    /\ debt' = IF waiters_ > 0 /\ ScenNotify("one") = "ones" THEN debt + 1 ELSE debt
    /\ elig' = IF queue_' # queue_ THEN Blocked ELSE elig
    /\ UNCHANGED <<pc, holder, waiters_, rel_time, success, rx_waiters, status,
                   caller, ready, pret>>
    /\ tally' = Tallied(IF queue_' # queue_ THEN 1 ELSE 0, 0)
    /\ UNCHANGED nonCv

NotifyAll(t) ==
    /\ pc[t] = "cs"
    /\ calls < MaxCalls
    /\ calls' = calls + 1
    /\ queue_' = notify_all(queue_, waiters_)
    /\ sig' = IF waiters_ > 0 THEN MarkNotify("all") ELSE sig
    /\ scen' = ScenNotify("all")
    /\ elig' = IF queue_' # queue_ THEN Threads ELSE elig
    /\ UNCHANGED <<pc, holder, waiters_, rel_time, success, rx_waiters, status,
                   caller, ready, pret, debt>>
    /\ tally' = Tallied(IF queue_' # queue_ THEN waiters_ ELSE 0, 0)
    /\ UNCHANGED nonCv

(***************************************************************************)
(* wait_for(lock, rel_time), in its three stretches.                       *)
(***************************************************************************)

\* lines 155-161: waiters_++ under the lock, then lock.unlock()
wait_for_enter(t, d) ==
    /\ holder = t
    /\ waiters_' = (waiters_ + 1) % Modulus
    /\ holder' = nullptr
    /\ rel_time' = [rel_time EXCEPT ![t] = d]
    /\ status' = [status EXCEPT ![t] = "none"]
    /\ pret' = [pret EXCEPT ![t] = "none"]
    /\ sig' = [sig EXCEPT ![t] = IF queue_ # <<>> THEN "stale" ELSE "none"]
    /\ scen' = ScenWait(d)
    /\ pc' = [pc EXCEPT ![t] = "pop"]
    /\ UNCHANGED <<queue_, success, rx_waiters, ready, debt, elig>>
    /\ UNCHANGED tally
    /\ UNCHANGED nonCv

\* line 165: queue_.pop_front(&rx_waiters, rel_time) receives a count; the
\* only step of wait_for made without the lock
wait_for_pop(t) ==
    /\ pc[t] = "pop"
    /\ pop_front_ready(queue_)
    /\ rx_waiters' = [rx_waiters EXCEPT ![t] = Head(queue_)]
    /\ queue_' = Tail(queue_)
    /\ success' = [success EXCEPT ![t] = TRUE]
    /\ debt' = IF debt > 0 THEN debt - 1 ELSE debt
    /\ elig' = Threads
    /\ pc' = [pc EXCEPT ![t] = "relock"]
    /\ UNCHANGED <<holder, waiters_, rel_time, status, caller, ready, pret,
                   calls, sig, scen>>
    /\ UNCHANGED tally
    /\ UNCHANGED nonCv

\* line 165: queue_.pop_front(&rx_waiters, rel_time) returns false, the wait
\* time having expired on an empty relay
wait_for_timeout(t) ==
    /\ pc[t] = "pop"
    /\ pop_front_expires(queue_, rel_time[t])
    /\ success' = [success EXCEPT ![t] = FALSE]
    /\ pc' = [pc EXCEPT ![t] = "relock"]
    /\ UNCHANGED <<holder, waiters_, queue_, rel_time, rx_waiters, status,
                   caller, ready, pret, calls, sig, scen, debt, elig>>
    /\ UNCHANGED tally
    /\ UNCHANGED nonCv

wait_for_exit_unlocked(t) ==
    /\ pc[t] = "relock"
    /\ waiters_' = (waiters_ - 1) % Modulus
    /\ queue_' = chain(queue_, success[t], rx_waiters[t], waiters_')
    /\ sig' = MarkChain(queue_' # queue_)
    /\ elig' = IF queue_' # queue_ THEN Threads ELSE elig
    /\ status' = [status EXCEPT ![t] = cv_status(success[t])]
    /\ pc' = [pc EXCEPT ![t] = IF caller[t] = "plain" THEN "cs" ELSE "pred"]
    /\ success' = [success EXCEPT ![t] = FALSE]
    /\ rx_waiters' = [rx_waiters EXCEPT ![t] = 0]
    /\ UNCHANGED <<holder, rel_time, caller, ready, pret, calls, scen, debt>>
    /\ tally' = Tallied(0, IF success[t] THEN 1 ELSE 0)
    /\ UNCHANGED nonCv

\* ~condition_variable(): configASSERT(waiters_ == 0) fails
destructor_asserts == waiters_ # 0

\* lines 167-186: lock.lock(), waiters_--, chain the notification, return
wait_for_exit(t) ==
    /\ pc[t] = "relock"
    /\ holder = nullptr
    /\ holder' = t
    /\ waiters_' = (waiters_ - 1) % Modulus
    /\ queue_' = chain(queue_, success[t], rx_waiters[t], waiters_')
    /\ sig' = MarkChain(queue_' # queue_)
    /\ elig' = IF queue_' # queue_ THEN Threads ELSE elig
    /\ status' = [status EXCEPT ![t] = cv_status(success[t])]
    /\ pc' = [pc EXCEPT ![t] = IF caller[t] = "plain" THEN "cs" ELSE "pred"]
    /\ success' = [success EXCEPT ![t] = FALSE]
    /\ rx_waiters' = [rx_waiters EXCEPT ![t] = 0]
    /\ UNCHANGED <<rel_time, caller, ready, pret, calls, scen, debt>>
    /\ tally' = Tallied(0, IF success[t] THEN 1 ELSE 0)
    /\ UNCHANGED nonCv

\* The application calls wait(lock) / wait_for(lock, rel_time) / wait_until(lock, abs_time).
WaitFor(t, d) ==
    /\ pc[t] = "cs"
    /\ calls < MaxCalls
    /\ calls' = calls + 1
    /\ caller' = [caller EXCEPT ![t] = "plain"]
    /\ wait_for_enter(t, d)

(***************************************************************************)
(* The predicate overloads (condition_variable.h).                         *)
(***************************************************************************)

\* The application calls wait(lock, pred) ("wait_pred") or
\* wait_until(lock, abs_time, pred) / wait_for(lock, rel_time, pred) ("until_pred").
PredCall(t, kind) ==
    /\ pc[t] = "cs"
    /\ holder = t
    /\ calls < MaxCalls
    /\ calls' = calls + 1
    /\ caller' = [caller EXCEPT ![t] = kind]
    /\ status' = [status EXCEPT ![t] = "none"]
    /\ pret' = [pret EXCEPT ![t] = "none"]
    /\ pc' = [pc EXCEPT ![t] = "pred"]
    /\ UNCHANGED <<holder, waiters_, queue_, rel_time, success, rx_waiters,
                   ready, sig, scen, debt, elig>>
    /\ UNCHANGED tally
    /\ UNCHANGED nonCv

\* pred(): the application condition, read under the mutex
pred == ready

pred_return(t, value) ==
    /\ pret' = [pret EXCEPT ![t] = value]
    /\ pc' = [pc EXCEPT ![t] = "cs"]
    /\ caller' = [caller EXCEPT ![t] = "plain"]
    /\ UNCHANGED <<holder, waiters_, queue_, rel_time, success, rx_waiters,
                   status, ready, calls, sig, scen, debt, elig>>
    /\ UNCHANGED tally
    /\ UNCHANGED nonCv

after_timeout_false == "false"

\* The value wait_until(lock, abs_time, pred) returns after a base wait timed out.
after_timeout == IF pred THEN "true" ELSE "false"

\* The wait time of the base wait a predicate loop calls: wait(lock) waits
\* for INFINITY, wait_until(lock, abs_time) for abs_time - Clock::now() ticks.
base_wait_time(kind) == IF kind = "wait_pred" THEN "infinite" ELSE "finite"

\* One turn of the loop of wait(lock, pred) (lines 258-261) or of
\* wait_until(lock, abs_time, pred) (lines 306-313).
PredStep(t) ==
    /\ pc[t] = "pred"
    /\ IF caller[t] = "until_pred" /\ status[t] = "timeout"
         THEN pred_return(t, after_timeout)
       ELSE IF pred
         THEN pred_return(t, IF caller[t] = "wait_pred" THEN "void" ELSE "true")
       ELSE /\ wait_for_enter(t, base_wait_time(caller[t]))
            /\ UNCHANGED <<caller, calls>>

(***************************************************************************)
(* Spec: threads that notify and wait (wait, wait_for, wait_until).        *)
(***************************************************************************)
Step(t) ==
    \/ Lock(t)
    \/ Unlock(t)
    \/ NotifyOne(t)
    \/ NotifyAll(t)
    \/ \E d \in Durations : WaitFor(t, d)
    \/ wait_for_pop(t)
    \/ wait_for_timeout(t)
    \/ wait_for_exit(t)

Next == \E t \in Threads : Step(t)

Spec == Init /\ [][Next]_vars

(***************************************************************************)
(* SpecCount: the threads of Spec, with the wake-ups issued and the        *)
(* successful returns counted.                                             *)
(***************************************************************************)
InitCount ==
    /\ InitOff
    /\ InitCv
    /\ tally = [NoTally EXCEPT !.on = TRUE]
    /\ ready = FALSE
    /\ scen = "fresh"

SpecCount == InitCount /\ [][Next]_vars

(***************************************************************************)
(* SpecInf: threads that notify and wait without a timeout (wait(lock)),   *)
(* under a fair scheduler: a thread that holds the mutex goes on to        *)
(* release it, a thread whose receive can complete completes it, and a     *)
(* thread that wants the mutex gets it if it is free again and again.      *)
(***************************************************************************)
StepInf(t) ==
    \/ Lock(t)
    \/ Unlock(t)
    \/ NotifyOne(t)
    \/ NotifyAll(t)
    \/ WaitFor(t, "infinite")
    \/ wait_for_pop(t)
    \/ wait_for_exit(t)

NextInf == \E t \in Threads : StepInf(t)

Fairness ==
    \A t \in Threads :
        /\ WF_vars(Unlock(t))
        /\ WF_vars(wait_for_pop(t))
        /\ SF_vars(wait_for_exit(t))

SpecInf == Init /\ [][NextInf]_vars /\ Fairness

(***************************************************************************)
(* SpecPred: threads that notify, change the condition and wait with a     *)
(* predicate.                                                              *)
(***************************************************************************)
StepPred(t) ==
    \/ Lock(t)
    \/ Unlock(t)
    \/ SetReady(t)
    \/ NotifyOne(t)
    \/ NotifyAll(t)
    \/ \E kind \in {"wait_pred", "until_pred"} : PredCall(t, kind)
    \/ PredStep(t)
    \/ wait_for_pop(t)
    \/ wait_for_timeout(t)
    \/ wait_for_exit(t)

NextPred == \E t \in Threads : StepPred(t)

InitPred ==
    /\ InitOff
    /\ InitCv
    /\ tally = NoTally
    /\ ready \in BOOLEAN
    /\ scen = "mixed"

SpecPred == InitPred /\ [][NextPred]_vars

(***************************************************************************)
(* The tick timer and the deadline waits (tick_timer.h, tick_timer.cpp,    *)
(* condition_variable.h): one thread calls wait_until(lock, abs_time) or   *)
(* a predicate overload whose predicate stays false, while the tick count  *)
(* advances.                                                               *)
(***************************************************************************)

\* tick_timer::rep = TickType_t: an unsigned tick count (16 bits here).
TickBits == 16

TickModulus == 2 ^ TickBits

\* INFINITE_DELAY = portMAX_DELAY, the largest TickType_t
INFINITE_DELAY == TickModulus - 1

\* The tick counts the runs start from: just after the start and just before
\* the counter wraps.
StartTicks == {0, 1, TickModulus - 2, TickModulus - 1}

InitTime ==
    /\ InitCv
    /\ tally = NoTally
    /\ ready = FALSE
    /\ scen = "mixed"
    /\ MutexOff
    /\ FlagsOff
    /\ QueueOff
    /\ SvcOff
    /\ MaskOff
    /\ OwnerOff
    /\ MakeOff
    /\ SemOff
    /\ CsOff
    /\ JoinOff
    /\ now \in StartTicks
    /\ abs_time = 0
    /\ tpc = "idle"
    /\ remaining = 0
    /\ clock = 0
    /\ due = 0

\* duration(abs_time - Clock::now()): a difference of unsigned tick counts
remaining_time(deadline, ticks) == (deadline - ticks) % TickModulus

\* The application calls wait_until(lock, abs_time [, pred]) with a deadline b
\* ticks ahead, or wait_for(lock, b ticks, pred), which computes
\* tick_timer::now() + rel_time as its deadline.
wait_until_call(b) ==
    /\ tpc = "idle"
    /\ abs_time' = (now + b) % TickModulus
    /\ due' = clock + b
    /\ tpc' = "loop"
    /\ UNCHANGED <<now, remaining, clock>>
    /\ UNCHANGED nonTime

\* wait_until(lock, abs_time): wait_for(lock, abs_time - Clock::now()), which
\* hands the difference to the kernel as the wait time of the relay receive.
\* A wait time of 0 does not block; INFINITE_DELAY blocks without a timeout.
wait_until_block ==
    /\ tpc = "loop"
    /\ remaining' = remaining_time(abs_time, now)
    /\ tpc' = IF remaining' = 0 THEN "expired" ELSE "blocked"
    /\ UNCHANGED <<now, abs_time, clock, due>>
    /\ UNCHANGED nonTime

\* The tick interrupt: the tick count advances (and wraps), and a blocked
\* thread whose wait time has run out is made ready.
Tick ==
    /\ clock < MaxTicks
    /\ clock' = clock + 1
    /\ now' = (now + 1) % TickModulus
    /\ IF tpc = "blocked" /\ remaining # INFINITE_DELAY
         THEN /\ remaining' = remaining - 1
              /\ tpc' = IF remaining' = 0 THEN "expired" ELSE "blocked"
         ELSE UNCHANGED <<remaining, tpc>>
    /\ UNCHANGED <<abs_time, due>>
    /\ UNCHANGED nonTime

\* A notification ends the base wait with no_timeout: the plain wait_until
\* returns; a predicate overload finds its predicate false and loops.
wait_until_wake(again) ==
    /\ tpc = "blocked"
    /\ tpc' = IF again THEN "loop" ELSE "idle"
    /\ remaining' = 0
    /\ UNCHANGED <<now, abs_time, clock, due>>
    /\ UNCHANGED nonTime

\* The base wait returns timeout and the call returns (return pred()).
wait_until_return ==
    /\ tpc = "expired"
    /\ tpc' = "idle"
    /\ UNCHANGED <<now, abs_time, remaining, clock, due>>
    /\ UNCHANGED nonTime

NextTime ==
    \/ \E b \in 0 .. MaxAhead : wait_until_call(b)
    \/ wait_until_block
    \/ Tick
    \/ \E again \in BOOLEAN : wait_until_wake(again)
    \/ wait_until_return

SpecTime == InitTime /\ [][NextTime]_vars

(***************************************************************************)
(* mutex and recursive_mutex as classes of their own (mutex.h, mutex.cpp,  *)
(* semaphore.h, semaphore.cpp): threads call lock, try_lock and unlock in  *)
(* any order, also where the API's contract forbids it.  Both classes run  *)
(* the same code (semaphore::acquire / try_acquire / release); they differ *)
(* in the kernel object their constructor creates.                         *)
(***************************************************************************)

\* configASSERT has fired: the system is stopped.
Halted == \E t \in Threads : mpc[t] = "trapped"

\* thread::get_id() of the thread x points to.  With the trace facility it is
\* uxTaskGetTaskNumber(handle()), which is 0 for a null handle; without, it is
\* id(this), the pointer itself (0 for nullptr).
thread_get_id(x) ==
    IF configUSE_TRACE_FACILITY
        THEN (IF x = nullptr THEN 0 ELSE uxTaskNumber[x])
        ELSE x

\* semaphore::get_mutex_holder(): xSemaphoreGetMutexHolder(handle())
get_locking_thread == holder

take_unchecked(h) == TRUE

\* semaphore::take: xSemaphoreTake(handle(), ...) can take the semaphore
\* when its count is 1, that is when the mutex has no holder.
take(h) == h = nullptr

\* The task numbers a build can have: never set (this code does not set
\* them), or set to distinct numbers by a trace tool.
TaskNumbers == {[t \in Threads |-> 0], [t \in Threads |-> t]}

InitMutex ==
    /\ InitCv
    /\ tally = NoTally
    /\ ready = FALSE
    /\ scen = "mixed"
    /\ TimeOff
    /\ FlagsOff
    /\ QueueOff
    /\ SvcOff
    /\ MaskOff
    /\ OwnerOff
    /\ MakeOff
    /\ SemOff
    /\ CsOff
    /\ JoinOff
    /\ mpc = [t \in Threads |-> "idle"]
    /\ mret = [t \in Threads |-> "none"]
    /\ mseen = [t \in Threads |-> nullptr]
    /\ is_recursive \in BOOLEAN
    /\ configUSE_TRACE_FACILITY \in BOOLEAN
    /\ uxTaskNumber \in TaskNumbers
    /\ uxRecursiveCallCount = 0
    /\ depth = [t \in Threads |-> 0]

\* lock(): semaphore::acquire() = take(INFINITY); the thread blocks in
\* xSemaphoreTake until it can take the semaphore.
mutex_lock(t) ==
    /\ ~Halted
    /\ mpc[t] = "idle"
    /\ mpc' = [mpc EXCEPT ![t] = "locking"]
    /\ mret' = [mret EXCEPT ![t] = "none"]
    /\ mseen' = [mseen EXCEPT ![t] = nullptr]
    /\ UNCHANGED <<holder, is_recursive, configUSE_TRACE_FACILITY, uxTaskNumber,
                   uxRecursiveCallCount, depth>>
    /\ UNCHANGED nonMutex

\* xSemaphoreTake succeeds and lock() returns: the kernel records the caller
\* as the holder.
mutex_lock_return(t) ==
    /\ ~Halted
    /\ mpc[t] = "locking"
    /\ take(holder)
    /\ holder' = t
    /\ depth' = [depth EXCEPT ![t] = @ + 1]
    /\ mpc' = [mpc EXCEPT ![t] = "idle"]
    /\ UNCHANGED <<mret, mseen, is_recursive, configUSE_TRACE_FACILITY, uxTaskNumber,
                   uxRecursiveCallCount>>
    /\ UNCHANGED nonMutex

\* try_lock(): semaphore::try_acquire() = take(0 ticks)
try_lock(t) ==
    /\ ~Halted
    /\ mpc[t] = "idle"
    /\ mseen' = [mseen EXCEPT ![t] = get_locking_thread]
    /\ IF take(holder)
         THEN /\ holder' = t
              /\ depth' = [depth EXCEPT ![t] = @ + 1]
              /\ mret' = [mret EXCEPT ![t] = "true"]
         ELSE /\ mret' = [mret EXCEPT ![t] = "false"]
              /\ UNCHANGED <<holder, depth>>
    /\ UNCHANGED <<mpc, is_recursive, configUSE_TRACE_FACILITY, uxTaskNumber,
                   uxRecursiveCallCount>>
    /\ UNCHANGED nonMutex

\* unlock(): configASSERT(get_locking_thread()->get_id() == this_thread::get_id()),
\* then semaphore::release() = give(1) = xSemaphoreGive(handle()).
\* xSemaphoreGive fails on a mutex that has no holder (its count is already
\* 1), releases a mutex held by the caller, and asserts in the kernel when the
\* holder is another task.
unlock(t) ==
    /\ ~Halted
    /\ mpc[t] = "idle"
    /\ mret' = [mret EXCEPT ![t] = "none"]
    /\ mseen' = [mseen EXCEPT ![t] = nullptr]
    /\ IF thread_get_id(get_locking_thread) # thread_get_id(t)
         THEN /\ mpc' = [mpc EXCEPT ![t] = "trapped"]
              /\ UNCHANGED <<holder, depth>>
       ELSE IF holder = nullptr
         THEN UNCHANGED <<mpc, holder, depth>>
       ELSE IF holder = t
         THEN /\ holder' = nullptr
              /\ depth' = [depth EXCEPT ![t] = @ - 1]
              /\ UNCHANGED mpc
       ELSE /\ mpc' = [mpc EXCEPT ![t] = "trapped"]
            /\ UNCHANGED <<holder, depth>>
    /\ UNCHANGED <<is_recursive, configUSE_TRACE_FACILITY, uxTaskNumber,
                   uxRecursiveCallCount>>
    /\ UNCHANGED nonMutex

NextMutex ==
    \E t \in Threads :
        \/ mutex_lock(t)
        \/ mutex_lock_return(t)
        \/ try_lock(t)
        \/ unlock(t)

SpecMutex == InitMutex /\ [][NextMutex]_vars

(***************************************************************************)
(* condition_flags / event_group (condition_flags.h, condition_flags.cpp,  *)
(* event_group.hpp, event_group.cpp): threads set, clear and wait for      *)
(* flags; interrupt handlers set flags through the timer service thread.   *)
(***************************************************************************)

\* Two of the user-assignable flag bits (bits 0 .. of cflag::max()).
UserBits == {0, 1}

\* The masks the calls are made with: one flag, and both.
Masks == {{0}, UserBits}

\* The threads that use the flags.
FlagThreads == {1, 2}

\* The wait times of a flags wait: a positive number of ticks, or infinity.
FlagDurations == {"finite", "infinite"}

\* The arguments of condition_flags::wait(flags, rel_time, exclusive, match_all):
\* wait_any_for (TRUE, FALSE), wait_all_for (TRUE, TRUE),
\* shared_wait_any_for (FALSE, FALSE), shared_wait_all_for (FALSE, TRUE).
Waits == [flags : Masks, exclusive : BOOLEAN, match_all : BOOLEAN, d : FlagDurations]

\* The length of the timer service's command queue.
configTIMER_QUEUE_LENGTH == 2

\* xEventGroupWaitBits' test of the flags b against the wait w
wait_condition(b, w) ==
    IF w.match_all THEN w.flags \subseteq b ELSE (w.flags \cap b) # {}

wait_result_unmasked(flags, setflags) == setflags

\* return flags & setflags;
wait_result(flags, setflags) == flags \cap setflags

clear_on_exit_always(w) == TRUE

\* xEventGroupWaitBits' xClearOnExit argument: exclusive
clear_on_exit(w) == w.exclusive

\* xEventGroupSetBits: the blocked threads whose wait the flags b satisfy
Woken(b) == {t \in Threads : fpc[t] = "blocked" /\ wait_condition(b, fwait[t])}

\* xEventGroupSetBits: the flags cleared for the woken threads that clear on exit
Cleared(b) ==
    UNION {fwait[t].flags : t \in {u \in Woken(b) : clear_on_exit(fwait[u])}}

\* The wait records of the threads that are in a wait.  What a wait returned is
\* kept for the one state after its return.
Waiting == [t \in Threads |-> IF fpc[t] = "blocked" THEN fwait[t] ELSE NoWait]

\* xEventGroupSetBits(handle(), f): sets the flags, unblocks every thread whose
\* wait is satisfied, handing it the flags as they are after the set, and
\* then clears the flags of the woken clear-on-exit waits.
SetBits(f) ==
    /\ bits' = (bits \cup f) \ Cleared(bits \cup f)
    /\ fpc' = [t \in Threads |-> IF t \in Woken(bits \cup f) THEN "idle" ELSE fpc[t]]
    /\ fret' = [t \in Threads |->
                  IF t \in Woken(bits \cup f)
                      THEN wait_result(fwait[t].flags, bits \cup f) ELSE {}]
    /\ fdone' = [t \in Threads |-> IF t \in Woken(bits \cup f) THEN "met" ELSE "none"]
    /\ fwait' = Waiting
    /\ owed' = owed \ Woken(bits \cup f)

\* trip after thread t called wait with the arguments w
TripWait(t, w) ==
    IF trip.who = t /\ trip.mask = w.flags
        THEN IF trip.stage \in {1, 2} /\ ~w.exclusive /\ ~w.match_all
                 THEN [trip EXCEPT !.stage = @ + 1]
             ELSE IF trip.stage = 3 /\ w.exclusive /\ ~w.match_all
                 THEN [trip EXCEPT !.stage = 4]
             ELSE IF trip.stage = 4 /\ w.d = "finite"
                 THEN [trip EXCEPT !.stage = 5]
             ELSE NoTrip
        ELSE NoTrip

InitFlags ==
    /\ InitCv
    /\ tally = NoTally
    /\ ready = FALSE
    /\ scen = "mixed"
    /\ TimeOff
    /\ MutexOff
    /\ QueueOff
    /\ SvcOff
    /\ MaskOff
    /\ OwnerOff
    /\ MakeOff
    /\ SemOff
    /\ CsOff
    /\ JoinOff
    /\ bits \in SUBSET UserBits
    /\ fpc = [t \in Threads |-> "idle"]
    /\ fwait = [t \in Threads |-> NoWait]
    /\ fret = [t \in Threads |-> {}]
    /\ fdone = [t \in Threads |-> "none"]
    /\ tq = <<>>
    /\ fcalls = 0
    /\ trip = NoTrip
    /\ owed = {}

\* condition_flags::set(flags) in thread context
flags_set(t, f) ==
    /\ fpc[t] = "idle"
    /\ fcalls < MaxFlagOps
    /\ fcalls' = fcalls + 1
    /\ SetBits(f)
    /\ trip' = IF Cleared(bits \cup f) = {}
                 THEN [who |-> t, mask |-> f, stage |-> 1] ELSE NoTrip
    /\ UNCHANGED tq
    /\ UNCHANGED nonFlags

\* condition_flags::clear(flags) in thread context
flags_clear(t, f) ==
    /\ fpc[t] = "idle"
    /\ fcalls < MaxFlagOps
    /\ fcalls' = fcalls + 1
    /\ bits' = bits \ f
    /\ trip' = NoTrip
    /\ fwait' = Waiting
    /\ fret' = [u \in Threads |-> {}]
    /\ fdone' = [u \in Threads |-> "none"]
    /\ UNCHANGED <<fpc, tq, owed>>
    /\ UNCHANGED nonFlags

\* condition_flags::set(flags) in interrupt context: xEventGroupSetBitsFromISR
\* pends the set to the timer service thread; the request is dropped when the
\* command queue is full, and the result of the call is discarded.
isr_set(f) ==
    /\ fcalls < MaxFlagOps
    /\ fcalls' = fcalls + 1
    /\ tq' = IF Len(tq) < configTIMER_QUEUE_LENGTH THEN Append(tq, f) ELSE tq
    /\ owed' = owed \cup {t \in Threads : /\ fpc[t] = "blocked"
                                          /\ fwait[t].exclusive
                                          /\ wait_condition(f, fwait[t])}
    /\ trip' = NoTrip
    /\ fwait' = Waiting
    /\ fret' = [u \in Threads |-> {}]
    /\ fdone' = [u \in Threads |-> "none"]
    /\ UNCHANGED <<bits, fpc>>
    /\ UNCHANGED nonFlags

\* The timer service thread executes the oldest pended set.
timer_task ==
    /\ tq # <<>>
    /\ SetBits(Head(tq))
    /\ tq' = Tail(tq)
    /\ trip' = NoTrip
    /\ UNCHANGED fcalls
    /\ UNCHANGED nonFlags

\* condition_flags::wait(flags, rel_time, exclusive, match_all) is called:
\* xEventGroupWaitBits returns at once when the flags satisfy the wait
\* (clearing them if exclusive), and blocks the thread otherwise.
flags_wait(t, w) ==
    /\ fpc[t] = "idle"
    /\ fcalls < MaxFlagOps
    /\ fcalls' = fcalls + 1
    /\ fwait' = [Waiting EXCEPT ![t] = w]
    /\ IF wait_condition(bits, w)
         THEN /\ fret' = [u \in Threads |->
                           IF u = t THEN wait_result(w.flags, bits) ELSE {}]
              /\ fdone' = [u \in Threads |-> IF u = t THEN "met" ELSE "none"]
              /\ bits' = IF clear_on_exit(w) THEN bits \ w.flags ELSE bits
              /\ UNCHANGED fpc
         ELSE /\ fpc' = [fpc EXCEPT ![t] = "blocked"]
              /\ fret' = [u \in Threads |-> {}]
              /\ fdone' = [u \in Threads |-> "none"]
              /\ UNCHANGED bits
    /\ trip' = TripWait(t, w)
    /\ UNCHANGED <<tq, owed>>
    /\ UNCHANGED nonFlags

\* The wait time of a blocked wait expires: xEventGroupWaitBits returns the
\* flags as they are now (clearing them if they satisfy an exclusive wait
\* after all), and wait returns flags & setflags.
flags_wait_timeout(t) ==
    /\ fpc[t] = "blocked"
    /\ fwait[t].d = "finite"
    /\ fpc' = [fpc EXCEPT ![t] = "idle"]
    /\ fret' = [u \in Threads |->
                  IF u = t THEN wait_result(fwait[t].flags, bits) ELSE {}]
    /\ fdone' = [u \in Threads |->
                   IF u # t THEN "none"
                   ELSE IF wait_condition(bits, fwait[t]) THEN "met" ELSE "timeout"]
    /\ fwait' = Waiting
    /\ bits' = IF wait_condition(bits, fwait[t]) /\ clear_on_exit(fwait[t])
                 THEN bits \ fwait[t].flags ELSE bits
    /\ owed' = owed \ {t}
    /\ trip' = IF trip.who = t /\ trip.stage = 5 THEN trip ELSE NoTrip
    /\ UNCHANGED <<tq, fcalls>>
    /\ UNCHANGED nonFlags

NextFlags ==
    \/ \E t \in FlagThreads, f \in Masks : flags_set(t, f)
    \/ \E t \in FlagThreads, f \in Masks : flags_clear(t, f)
    \/ \E f \in Masks : isr_set(f)
    \/ timer_task
    \/ \E t \in FlagThreads, w \in Waits : flags_wait(t, w)
    \/ \E t \in FlagThreads : flags_wait_timeout(t)

SpecFlags == InitFlags /\ [][NextFlags]_vars

(***************************************************************************)
(* queue / shallow_copy_queue (queue.h, queue.cpp): calls made from thread *)
(* context and from interrupt handlers, with a wait time of zero.          *)
(***************************************************************************)

\* The elements pushed.
Elements == {1, 2}

\* The kernel's view of the queue.
uxQueueMessagesWaiting == Len(items)
uxQueueSpacesAvailable == max_size - Len(items)
xQueueIsQueueFullFromISR == Len(items) = max_size
xQueueIsQueueEmptyFromISR == Len(items) = 0

\* queue::size()
size(in_isr) == uxQueueMessagesWaiting

\* queue::available() (thread context only)
available == uxQueueSpacesAvailable

\* queue::full()
full(in_isr) ==
    IF ~in_isr THEN uxQueueMessagesWaiting = 0 ELSE xQueueIsQueueFullFromISR

\* queue::empty()
empty(in_isr) ==
    IF ~in_isr THEN uxQueueSpacesAvailable = 0 ELSE xQueueIsQueueEmptyFromISR

\* The wait times of the calls, in ticks: none, and a nonzero one.
WaitTimes == {0, 1}

\* The calling context can make a call: an interrupt handler unless the
\* program has stopped, the thread if it is not inside a call.
CanCall(in_isr) == IF in_isr THEN qpc # "trapped" ELSE qpc = "idle"

\* What a call that returned leaves behind: its name, context and results.
Called(op, in_isr, waittime, b, n, v) ==
    /\ qcalls < MaxQueueOps
    /\ qcalls' = qcalls + 1
    /\ qop' = op
    /\ qin_isr' = in_isr
    /\ qwait' = waittime
    /\ qret' = b
    /\ qnum' = n
    /\ qout' = v
    /\ UNCHANGED nonQueue

\* configASSERT(to_ticks(waittime) == 0) fails in an interrupt handler.
Trapped(op, waittime) ==
    /\ Called(op, TRUE, waittime, FALSE, 0, 0)
    /\ qpc' = "trapped"
    /\ UNCHANGED <<items, qblk>>

\* The thread blocks in the kernel call op for up to waittime ticks.
BlockedIn(op, waittime, v) ==
    /\ Called(op, FALSE, waittime, FALSE, 0, 0)
    /\ qpc' = "blocked"
    /\ qblk' = [op |-> op, v |-> v]
    /\ UNCHANGED items

\* The kernel's test whether the call op can be served now.
Servable(op) ==
    IF op \in {"push_back", "push_front"} THEN Len(items) < max_size
    ELSE items # <<>>

\* The queue's elements after the call op (with the element v) has been served.
Served(op, v) ==
    CASE op = "push_back" -> Append(items, v)
      [] op = "push_front" -> <<v>> \o items
      [] op = "pop_front" -> Tail(items)
      [] OTHER -> items

\* The element the call op copies out when it is served.
CopiedOut(op) == IF op \in {"pop_front", "peek_front"} THEN Head(items) ELSE 0

\* A kernel send / receive / peek in thread context (xQueueSendToBack, ...)
\* or its FromISR variant, which never blocks.
KernelCall(op, in_isr, waittime, v) ==
    IF Servable(op)
    THEN /\ items' = Served(op, v)
         /\ Called(op, in_isr, waittime, TRUE, 0, CopiedOut(op))
         /\ UNCHANGED <<qpc, qblk>>
    ELSE IF in_isr \/ waittime = 0
    THEN /\ Called(op, in_isr, waittime, FALSE, 0, 0)
         /\ UNCHANGED <<items, qpc, qblk>>
    ELSE BlockedIn(op, waittime, v)

\* A queue of max_size elements, constructed empty in thread context.
InitQueue ==
    /\ InitCv
    /\ tally = NoTally
    /\ ready = FALSE
    /\ scen = "mixed"
    /\ TimeOff
    /\ MutexOff
    /\ FlagsOff
    /\ QueueOff
    /\ SvcOff
    /\ MaskOff
    /\ OwnerOff
    /\ MakeOff
    /\ SemOff
    /\ CsOff
    /\ JoinOff

\* shallow_copy_queue::push_back(value, waittime)
queue_push_back(in_isr, v, waittime) ==
    /\ CanCall(in_isr)
    /\ IF in_isr /\ waittime # 0
       THEN Trapped("push_back", waittime)
       ELSE KernelCall("push_back", in_isr, waittime, v)

\* shallow_copy_queue::push_front(value, waittime)
queue_push_front(in_isr, v, waittime) ==
    /\ CanCall(in_isr)
    /\ IF in_isr /\ waittime # 0
       THEN Trapped("push_front", waittime)
       ELSE KernelCall("push_front", in_isr, waittime, v)

\* shallow_copy_queue::pop_front(&value, waittime)
queue_pop_front(in_isr, waittime) ==
    /\ CanCall(in_isr)
    /\ IF in_isr /\ waittime # 0
       THEN Trapped("pop_front", waittime)
       ELSE KernelCall("pop_front", in_isr, waittime, 0)

\* shallow_copy_queue::peek_front(&value, waittime): the interrupt branch
\* does not look at waittime.
queue_peek_front(in_isr, waittime) ==
    /\ CanCall(in_isr)
    /\ KernelCall("peek_front", in_isr, waittime, 0)

\* The blocked thread is woken (an element or a space has become available)
\* and its call is served.
queue_wake ==
    /\ qpc = "blocked"
    /\ Servable(qblk.op)
    /\ items' = Served(qblk.op, qblk.v)
    /\ Called(qblk.op, FALSE, 1, TRUE, 0, CopiedOut(qblk.op))
    /\ qpc' = "idle"
    /\ qblk' = NoCall

\* The blocked thread's wait time expires: its call returns false.
queue_timeout ==
    /\ qpc = "blocked"
    /\ ~Servable(qblk.op)
    /\ Called(qblk.op, FALSE, 1, FALSE, 0, 0)
    /\ qpc' = "idle"
    /\ qblk' = NoCall
    /\ UNCHANGED items

\* queue::reset() (thread context only)
queue_reset ==
    /\ CanCall(FALSE)
    /\ items' = <<>>
    /\ Called("reset", FALSE, 0, FALSE, 0, 0)
    /\ UNCHANGED <<qpc, qblk>>

\* a call of queue::size()
call_size(in_isr) ==
    /\ CanCall(in_isr)
    /\ Called("size", in_isr, 0, FALSE, size(in_isr), 0)
    /\ UNCHANGED <<items, qpc, qblk>>

\* a call of queue::available() (thread context only)
call_available ==
    /\ CanCall(FALSE)
    /\ Called("available", FALSE, 0, FALSE, available, 0)
    /\ UNCHANGED <<items, qpc, qblk>>

\* a call of queue::full()
call_full(in_isr) ==
    /\ CanCall(in_isr)
    /\ Called("full", in_isr, 0, full(in_isr), 0, 0)
    /\ UNCHANGED <<items, qpc, qblk>>

\* a call of queue::empty()
call_empty(in_isr) ==
    /\ CanCall(in_isr)
    /\ Called("empty", in_isr, 0, empty(in_isr), 0, 0)
    /\ UNCHANGED <<items, qpc, qblk>>

NextQueue ==
    \/ \E in_isr \in BOOLEAN, v \in Elements, waittime \in WaitTimes :
          queue_push_back(in_isr, v, waittime)
    \/ \E in_isr \in BOOLEAN, v \in Elements, waittime \in WaitTimes :
          queue_push_front(in_isr, v, waittime)
    \/ \E in_isr \in BOOLEAN, waittime \in WaitTimes : queue_pop_front(in_isr, waittime)
    \/ \E in_isr \in BOOLEAN, waittime \in WaitTimes : queue_peek_front(in_isr, waittime)
    \/ queue_wake
    \/ queue_timeout
    \/ queue_reset
    \/ \E in_isr \in BOOLEAN : call_size(in_isr)
    \/ call_available
    \/ \E in_isr \in BOOLEAN : call_full(in_isr)
    \/ \E in_isr \in BOOLEAN : call_empty(in_isr)

SpecQueue == InitQueue /\ [][NextQueue]_vars

(***************************************************************************)
(* thread::join, thread::~thread (thread.hpp, thread.cpp): threads join a  *)
(* thread that terminates, by returning from its function or by being      *)
(* destroyed by its owner.                                                 *)
(***************************************************************************)

\* The threads that call join(), and the thread they join.
Joiners == {1, 2}
Joined == 3

\* thread::joinable()
joinable == tstate # "terminated" /\ exit_condition = nullptr

\* A joiner that the scheduler can run: it is inside join() and not blocked.
Runnable(j) ==
    \/ jpc[j] \in {"checked", "asserted", "stored"}
    \/ jpc[j] = "waiting" /\ exit_cond[j]

\* The thread that runs ~thread() gets the processor: always with equal
\* priorities (time slicing), with joiners of a higher priority only when none
\* of them can run.
Scheduled == jhigher => \A j \in Joiners : ~Runnable(j)

\* The mutex variables join() does not use; the build option and the task
\* numbers decide what get_id() returns.
InitJoin ==
    /\ InitCv
    /\ tally = NoTally
    /\ ready = FALSE
    /\ scen = "mixed"
    /\ TimeOff
    /\ FlagsOff
    /\ QueueOff
    /\ SvcOff
    /\ MaskOff
    /\ OwnerOff
    /\ MakeOff
    /\ SemOff
    /\ CsOff
    /\ mpc = [t \in Threads |-> "idle"]
    /\ mret = [t \in Threads |-> "none"]
    /\ mseen = [t \in Threads |-> nullptr]
    /\ is_recursive = FALSE
    /\ configUSE_TRACE_FACILITY \in BOOLEAN
    /\ uxTaskNumber \in TaskNumbers
    /\ uxRecursiveCallCount = 0
    /\ depth = [t \in Threads |-> 0]
    /\ tstate = "running"
    /\ exit_condition = nullptr
    /\ jpc = [t \in Threads |-> "idle"]
    /\ exit_cond = [t \in Threads |-> FALSE]
    /\ jhigher \in BOOLEAN
    /\ path \in {"self", "owner"}
    /\ jsaw = [t \in Threads |-> "none"]

\* join(): configASSERT(joinable()); configASSERT(get_id() != this_thread::get_id());
join_check(j) ==
    /\ jpc[j] = "idle"
    /\ jpc' = [jpc EXCEPT ![j] =
                 IF joinable /\ thread_get_id(Joined) # thread_get_id(j)
                 THEN "checked" ELSE "trapped"]
    /\ UNCHANGED <<tstate, exit_condition, exit_cond, jhigher, path, jsaw>>
    /\ UNCHANGED <<mtxVars, nonJoin>>

\* set_exit_condition(): configASSERT(nullptr == get_exit_condition());
set_exit_condition_assert(j) ==
    /\ jpc[j] = "checked"
    /\ jpc' = [jpc EXCEPT ![j] =
                 IF exit_condition = nullptr THEN "asserted" ELSE "trapped"]
    /\ UNCHANGED <<tstate, exit_condition, exit_cond, jhigher, path, jsaw>>
    /\ UNCHANGED <<mtxVars, nonJoin>>

\* set_exit_condition(): vTaskSetThreadLocalStoragePointer(handle(), index, cond);
set_exit_condition(j) ==
    /\ jpc[j] = "asserted"
    /\ exit_condition' = j
    /\ jpc' = [jpc EXCEPT ![j] = "stored"]
    /\ UNCHANGED <<tstate, exit_cond, jhigher, path, jsaw>>
    /\ UNCHANGED <<mtxVars, nonJoin>>

\* join(): exit_cond.shared_wait_any_for(cflag::max(), infinity) is called:
\* it returns at once if the flags are set, else the joiner blocks.
join_wait(j) ==
    /\ jpc[j] = "stored"
    /\ jpc' = [jpc EXCEPT ![j] = IF exit_cond[j] THEN "done" ELSE "waiting"]
    /\ jsaw' = [jsaw EXCEPT ![j] = IF exit_cond[j] THEN tstate ELSE @]
    /\ UNCHANGED <<tstate, exit_condition, exit_cond, jhigher, path>>
    /\ UNCHANGED <<mtxVars, nonJoin>>

\* join(): the blocked joiner is woken by the set flags and join() returns.
join_return(j) ==
    /\ jpc[j] = "waiting"
    /\ exit_cond[j]
    /\ jpc' = [jpc EXCEPT ![j] = "done"]
    /\ jsaw' = [jsaw EXCEPT ![j] = tstate]
    /\ UNCHANGED <<tstate, exit_condition, exit_cond, jhigher, path>>
    /\ UNCHANGED <<mtxVars, nonJoin>>

signal_exit_silent ==
    /\ tstate = "running"
    /\ Scheduled
    /\ tstate' = "signalled"
    /\ UNCHANGED <<exit_condition, jpc, exit_cond, jhigher, path, jsaw>>
    /\ UNCHANGED <<mtxVars, nonJoin>>

\* ~thread(): signal_exit(), inside a critical section: the registered exit
\* condition, if any, is set.
signal_exit ==
    /\ tstate = "running"
    /\ Scheduled
    /\ tstate' = "signalled"
    /\ exit_cond' = IF exit_condition # nullptr
                      THEN [exit_cond EXCEPT ![exit_condition] = TRUE]
                      ELSE exit_cond
    /\ UNCHANGED <<exit_condition, jpc, jhigher, path, jsaw>>
    /\ UNCHANGED <<mtxVars, nonJoin>>

\* ~thread(): vTaskDelete(handle());
vTaskDelete ==
    /\ tstate = "signalled"
    /\ Scheduled
    /\ tstate' = "terminated"
    /\ UNCHANGED <<exit_condition, jpc, exit_cond, jhigher, path, jsaw>>
    /\ UNCHANGED <<mtxVars, nonJoin>>

NextJoin ==
    \/ \E j \in Joiners : join_check(j)
    \/ \E j \in Joiners : set_exit_condition_assert(j)
    \/ \E j \in Joiners : set_exit_condition(j)
    \/ \E j \in Joiners : join_wait(j)
    \/ \E j \in Joiners : join_return(j)
    \/ signal_exit
    \/ vTaskDelete

SpecJoin == InitJoin /\ [][NextJoin]_vars

(***************************************************************************)
(* cpu::critical_section (cpu.hpp, cpu.cpp): one execution context, a      *)
(* thread or an interrupt handler, locks and unlocks guard instances.      *)
(***************************************************************************)

\* The guard instances that are locked.
Locked == {cs_locked[i] : i \in 1 .. Len(cs_locked)}

\* The sequence q without its element g.
Without(q, g) == SelectSeq(q, LAMBDA x : x # g)

restore_none(g) == 0

\* taskEXIT_CRITICAL_FROM_ISR(restore_): the mask the guard g restores
restore_token(g) == restore_[g]

\* The context starts with interrupts enabled, or (a thread inside a
\* taskENTER_CRITICAL, an interrupt handler that has masked interrupts) with
\* interrupts masked.
InitCs ==
    /\ InitCv
    /\ tally = NoTally
    /\ ready = FALSE
    /\ scen = "mixed"
    /\ TimeOff
    /\ MutexOff
    /\ FlagsOff
    /\ QueueOff
    /\ SvcOff
    /\ MaskOff
    /\ OwnerOff
    /\ MakeOff
    /\ SemOff
    /\ JoinOff
    /\ cs_in_isr \in BOOLEAN
    /\ cs_locked = <<>>
    /\ restore_ = [g \in Guards |-> 0]
    /\ basepri \in {0, 1}
    /\ uxCriticalNesting = IF cs_in_isr THEN 0 ELSE basepri
    /\ cs_before = <<uxCriticalNesting, basepri>>
    /\ cs_nested = TRUE
    /\ cs_calls = 0

\* critical_section::lock()
critical_section_lock(g) ==
    /\ cs_calls < MaxCsOps
    /\ g \notin Locked
    /\ cs_calls' = cs_calls + 1
    /\ cs_locked' = Append(cs_locked, g)
    /\ cs_before' = IF cs_locked = <<>> THEN <<uxCriticalNesting, basepri>> ELSE cs_before
    /\ cs_nested' = IF cs_locked = <<>> THEN TRUE ELSE cs_nested
    /\ basepri' = 1
    /\ IF ~cs_in_isr
       THEN /\ uxCriticalNesting' = uxCriticalNesting + 1
            /\ UNCHANGED restore_
       ELSE /\ restore_' = [restore_ EXCEPT ![g] = basepri]
            /\ UNCHANGED uxCriticalNesting
    /\ UNCHANGED cs_in_isr
    /\ UNCHANGED nonCs

\* critical_section::unlock()
critical_section_unlock(g) ==
    /\ cs_calls < MaxCsOps
    /\ g \in Locked
    /\ cs_calls' = cs_calls + 1
    /\ cs_locked' = Without(cs_locked, g)
    /\ cs_nested' = (cs_nested /\ cs_locked[Len(cs_locked)] = g)
    /\ IF ~cs_in_isr
       THEN /\ uxCriticalNesting' = uxCriticalNesting - 1
            /\ basepri' = IF uxCriticalNesting = 1 THEN 0 ELSE basepri
       ELSE /\ basepri' = restore_token(g)
            /\ UNCHANGED uxCriticalNesting
    /\ UNCHANGED <<cs_in_isr, restore_, cs_before>>
    /\ UNCHANGED nonCs

NextCs ==
    \/ \E g \in Guards : critical_section_lock(g)
    \/ \E g \in Guards : critical_section_unlock(g)

SpecCs == InitCs /\ [][NextCs]_vars

(***************************************************************************)
(* semaphore, counting_semaphore, binary_semaphore (semaphore.h,           *)
(* semaphore.cpp): threads and interrupt handlers take and give.           *)
(***************************************************************************)

\* The threads that use the semaphore.
SemThreads == {1, 2}

\* The arguments of release(update).
Updates == {0, 1, 2}

xSemaphoreGive_unbounded(c) == c + 1

\* The count after xSemaphoreGive / xSemaphoreGiveFromISR on the count c: the
\* give fails on a semaphore that is at its maximum.
xSemaphoreGive(c) == IF c < sem_max THEN c + 1 ELSE c

give_from_isr_once(c, update, ok) == <<xSemaphoreGive(c), c < sem_max>>

\* semaphore::give(update) in an interrupt handler: the loop of single gives,
\* which no thread interrupts.  The result is <<count, success>>.
RECURSIVE give_from_isr(_, _, _)
give_from_isr(c, update, ok) ==
    IF ok /\ update > 0
    THEN give_from_isr(xSemaphoreGive(c), update - 1, c < sem_max)
    ELSE <<c, ok>>

\* sgive after caller t has changed the count: the gives the other threads
\* are inside are no longer alone.
Others(t) ==
    [u \in Threads |->
        IF u # t /\ spc[u] = "giving" THEN [NoGive EXCEPT !.alone = FALSE] ELSE sgive[u]]

\* sgive after a call of t that takes the count from c to d
Touched(t, c, d) == IF c # d THEN Others(t) ELSE sgive

\* What a call that returned leaves behind.
SemReturned(t, op, b) ==
    /\ slast' = [slast EXCEPT ![t] = op]
    /\ sret' = [sret EXCEPT ![t] = b]

SemCall ==
    /\ ~strapped
    /\ \A u \in Threads : ~sgive[u].ctor
    /\ scalls < MaxSemOps
    /\ scalls' = scalls + 1

\* A counting_semaphore<sem_max> constructed with a desired count of at most
\* sem_max (xSemaphoreCreateCountingStatic(max, desired)), or a
\* binary_semaphore whose constructor, run by thread 1, has created the
\* empty semaphore (xSemaphoreCreateBinaryStatic) and called give(desired).
InitSem ==
    /\ InitCv
    /\ tally = NoTally
    /\ ready = FALSE
    /\ scen = "mixed"
    /\ TimeOff
    /\ MutexOff
    /\ FlagsOff
    /\ QueueOff
    /\ SvcOff
    /\ MaskOff
    /\ OwnerOff
    /\ MakeOff
    /\ JoinOff
    /\ CsOff
    /\ sem_max \in 1 .. MaxSemValue
    /\ \/ /\ count \in 0 .. sem_max
          /\ spc = [t \in Threads |-> "idle"]
          /\ supdate = [t \in Threads |-> 0]
          /\ sgive = [t \in Threads |-> NoGive]
       \/ \E desired \in Updates :
              /\ sem_max = 1
              /\ count = 0
              /\ spc = [t \in Threads |-> IF t = 1 THEN "giving" ELSE "idle"]
              /\ supdate = [t \in Threads |-> IF t = 1 THEN desired ELSE 0]
              /\ sgive = [t \in Threads |->
                             IF t = 1
                             THEN [from |-> 0, n |-> desired, alone |-> TRUE, ctor |-> TRUE]
                             ELSE NoGive]
    /\ stimeout = [t \in Threads |-> "zero"]
    /\ ssuccess = [t \in Threads |-> TRUE]
    /\ slast = [t \in SemCallers |-> "none"]
    /\ sret = [t \in SemCallers |-> FALSE]
    /\ strapped = FALSE
    /\ scalls = 0

\* semaphore::take(timeout) in thread context: try_acquire ("zero"),
\* try_acquire_for ("finite"), acquire ("infinite")
sem_take(t, timeout) ==
    /\ SemCall
    /\ spc[t] = "idle"
    /\ IF count > 0
       THEN /\ count' = count - 1
            /\ SemReturned(t, "take", TRUE)
            /\ UNCHANGED spc
       ELSE IF timeout = "zero"
       THEN /\ SemReturned(t, "take", FALSE)
            /\ UNCHANGED <<count, spc>>
       ELSE /\ spc' = [spc EXCEPT ![t] = "blocked"]
            /\ slast' = [slast EXCEPT ![t] = "none"]
            /\ UNCHANGED <<count, sret>>
    /\ stimeout' = [stimeout EXCEPT ![t] = timeout]
    /\ sgive' = Touched(t, count, count')
    /\ UNCHANGED <<sem_max, supdate, ssuccess, strapped>>
    /\ UNCHANGED nonSem

\* xSemaphoreTake: the blocked thread is woken by a give and takes the count
sem_take_wake(t) ==
    /\ ~strapped
    /\ spc[t] = "blocked"
    /\ count > 0
    /\ count' = count - 1
    /\ spc' = [spc EXCEPT ![t] = "idle"]
    /\ SemReturned(t, "take", TRUE)
    /\ sgive' = Others(t)
    /\ UNCHANGED <<sem_max, stimeout, supdate, ssuccess, strapped, scalls>>
    /\ UNCHANGED nonSem

\* xSemaphoreTake: the blocked thread's wait time expires
sem_take_timeout(t) ==
    /\ ~strapped
    /\ spc[t] = "blocked"
    /\ stimeout[t] = "finite"
    /\ count = 0
    /\ spc' = [spc EXCEPT ![t] = "idle"]
    /\ SemReturned(t, "take", FALSE)
    /\ UNCHANGED <<count, sem_max, stimeout, supdate, ssuccess, strapped, scalls, sgive>>
    /\ UNCHANGED nonSem

\* semaphore::take(timeout) in an interrupt handler
sem_take_isr(timeout) ==
    /\ SemCall
    /\ IF timeout # "zero"
       THEN /\ strapped' = TRUE
            /\ UNCHANGED <<count, slast, sret>>
       ELSE /\ count' = IF count > 0 THEN count - 1 ELSE count
            /\ SemReturned(isr, "take", count > 0)
            /\ UNCHANGED strapped
    /\ sgive' = Touched(isr, count, count')
    /\ UNCHANGED <<sem_max, spc, stimeout, supdate, ssuccess>>
    /\ UNCHANGED nonSem

\* semaphore::give(update) in thread context is called: bool success = true;
sem_give(t, update) ==
    /\ SemCall
    /\ spc[t] = "idle"
    /\ spc' = [spc EXCEPT ![t] = "giving"]
    /\ supdate' = [supdate EXCEPT ![t] = update]
    /\ ssuccess' = [ssuccess EXCEPT ![t] = TRUE]
    /\ slast' = [slast EXCEPT ![t] = "none"]
    /\ sgive' = [sgive EXCEPT ![t] = [from |-> count, n |-> update, alone |-> TRUE, ctor |-> FALSE]]
    /\ UNCHANGED <<count, sem_max, stimeout, sret, strapped>>
    /\ UNCHANGED nonSem

\* one turn of give's loop: while (success && (update > 0)), or its return
sem_give_step(t) ==
    /\ ~strapped
    /\ spc[t] = "giving"
    /\ IF ssuccess[t] /\ supdate[t] > 0
       THEN /\ count' = xSemaphoreGive(count)
            /\ ssuccess' = [ssuccess EXCEPT ![t] = count < sem_max]
            /\ supdate' = [supdate EXCEPT ![t] = @ - 1]
            /\ sgive' = Touched(t, count, count')
            /\ UNCHANGED <<spc, slast, sret>>
       ELSE /\ spc' = [spc EXCEPT ![t] = "idle"]
            /\ SemReturned(t, "give", ssuccess[t])
            /\ supdate' = [supdate EXCEPT ![t] = 0]
            /\ ssuccess' = [ssuccess EXCEPT ![t] = TRUE]
            /\ sgive' = [sgive EXCEPT ![t] = NoGive]
            /\ UNCHANGED count
    /\ UNCHANGED <<sem_max, stimeout, strapped, scalls>>
    /\ UNCHANGED nonSem

\* semaphore::give(update) in an interrupt handler
sem_give_isr(update) ==
    /\ SemCall
    /\ count' = give_from_isr(count, update, TRUE)[1]
    /\ SemReturned(isr, "give", give_from_isr(count, update, TRUE)[2])
    /\ sgive' = Touched(isr, count, count')
    /\ UNCHANGED <<sem_max, spc, stimeout, supdate, ssuccess, strapped>>
    /\ UNCHANGED nonSem

NextSem ==
    \/ \E t \in SemThreads, timeout \in Durations : sem_take(t, timeout)
    \/ \E t \in SemThreads : sem_take_wake(t)
    \/ \E t \in SemThreads : sem_take_timeout(t)
    \/ \E timeout \in Durations : sem_take_isr(timeout)
    \/ \E t \in SemThreads, update \in Updates : sem_give(t, update)
    \/ \E t \in SemThreads : sem_give_step(t)
    \/ \E update \in Updates : sem_give_isr(update)

SpecSem == InitSem /\ [][NextSem]_vars

(***************************************************************************)
(* make_thread (thread.hpp, thread.cpp): threads are created on the        *)
(* kernel's heap and deleted.                                              *)
(***************************************************************************)

\* The memory a thread needs, in blocks: its stack (stacksize) and its
\* control block.
StackSizes == {1, 2}
ControlBlock == 1

\* xTaskCreate's result for a thread with a stack of the given size
xTaskCreate(stacksize) == heap_free >= stacksize + ControlBlock

\* The sequence q without its i-th element.
RemoveAt(q, i) == SubSeq(q, 1, i - 1) \o SubSeq(q, i + 1, Len(q))

InitMake ==
    /\ InitCv
    /\ tally = NoTally
    /\ ready = FALSE
    /\ scen = "mixed"
    /\ TimeOff
    /\ MutexOff
    /\ FlagsOff
    /\ QueueOff
    /\ SvcOff
    /\ MaskOff
    /\ OwnerOff
    /\ JoinOff
    /\ CsOff
    /\ SemOff
    /\ heap_free \in 0 .. MaxHeap
    /\ alive = <<>>
    /\ mk_res = "none"
    /\ mk_ret = "none"
    /\ mk_trapped = FALSE
    /\ configASSERT_defined \in BOOLEAN
    /\ mk_calls = 0

\* make_thread(func, param, stacksize, prio, name)
make_thread(stacksize) ==
    /\ ~mk_trapped
    /\ mk_calls < MaxMakeOps
    /\ mk_calls' = mk_calls + 1
    /\ IF xTaskCreate(stacksize)
       THEN /\ heap_free' = heap_free - (stacksize + ControlBlock)
            /\ alive' = Append(alive, stacksize + ControlBlock)
            /\ mk_res' = "pass"
            /\ mk_ret' = "thread"
            /\ UNCHANGED mk_trapped
       ELSE /\ mk_res' = "fail"
            /\ mk_trapped' = configASSERT_defined
            /\ mk_ret' = IF configASSERT_defined THEN "none" ELSE "nullptr"
            /\ UNCHANGED <<heap_free, alive>>
    /\ UNCHANGED configASSERT_defined
    /\ UNCHANGED nonMake

\* A created thread is deleted and its memory freed.
thread_delete(i) ==
    /\ ~mk_trapped
    /\ mk_calls < MaxMakeOps
    /\ mk_calls' = mk_calls + 1
    /\ i \in 1 .. Len(alive)
    /\ heap_free' = heap_free + alive[i]
    /\ alive' = RemoveAt(alive, i)
    /\ mk_res' = "none"
    /\ mk_ret' = "none"
    /\ UNCHANGED <<mk_trapped, configASSERT_defined>>
    /\ UNCHANGED nonMake

NextMake ==
    \/ \E stacksize \in StackSizes : make_thread(stacksize)
    \/ \E i \in 1 .. MaxHeap : thread_delete(i)

SpecMake == InitMake /\ [][NextMake]_vars

(***************************************************************************)
(* thread_owner (thread_owner.h, thread_owner.cpp): the std::thread like   *)
(* owner of thread 3, used by thread 1 and by the owned thread itself.     *)
(***************************************************************************)

\* The thread that holds the thread_owner object; the owner's exit
\* condition is exit_cond[Holder].
Holder == 1

\* thread_owner::joinable()
owner_joinable == pthread_ # nullptr

\* The values thread_owner::get_id() can return: id(0) without a thread,
\* else pthread_->get_id(), which with the trace facility reads the task
\* number from the thread's control block: any value once the kernel has
\* deleted the thread.
owner_get_id ==
    IF pthread_ = nullptr THEN {0}
    ELSE IF configUSE_TRACE_FACILITY /\ tstate = "terminated" THEN 0 .. NumThreads
    ELSE {thread_get_id(pthread_)}

joined_kept(p) == p

\* join(): pthread_ = nullptr;
joined(p) == nullptr

\* thread::clear_exit_condition(cond): unlinks cond if it is the stored one
clear_exit_condition(cond) == IF exit_condition = cond THEN nullptr ELSE exit_condition

\* A default constructed owner, or one constructed with a thread, which
\* registers the owner's exit condition with the new thread.
InitOwner ==
    /\ InitCv
    /\ tally = NoTally
    /\ ready = FALSE
    /\ scen = "mixed"
    /\ TimeOff
    /\ FlagsOff
    /\ QueueOff
    /\ SvcOff
    /\ MaskOff
    /\ MakeOff
    /\ SemOff
    /\ CsOff
    /\ mpc = [t \in Threads |-> "idle"]
    /\ mret = [t \in Threads |-> "none"]
    /\ mseen = [t \in Threads |-> nullptr]
    /\ is_recursive = FALSE
    /\ configUSE_TRACE_FACILITY \in BOOLEAN
    /\ uxTaskNumber \in TaskNumbers
    /\ uxRecursiveCallCount = 0
    /\ depth = [t \in Threads |-> 0]
    /\ tstate = "running"
    /\ jpc = [t \in Threads |-> "idle"]
    /\ exit_cond = [t \in Threads |-> FALSE]
    /\ jhigher = FALSE
    /\ path \in {"self", "owner"}
    /\ jsaw = [t \in Threads |-> "none"]
    /\ pthread_ \in {nullptr, Joined}
    /\ exit_condition = IF pthread_ = nullptr THEN nullptr ELSE Holder
    /\ ohist = IF pthread_ = nullptr THEN "empty" ELSE "owning"
    /\ opc = [t \in Threads |-> "idle"]
    /\ ocalls = 0

\* Thread t, which is running, calls a member function of the owner.
OwnerCall(t) ==
    /\ opc[t] = "idle"
    /\ \A u \in Threads : opc[u] # "trapped"
    /\ t = Joined => tstate = "running"
    /\ ocalls < MaxOwnerOps
    /\ ocalls' = ocalls + 1

\* join(): configASSERT(joinable()); configASSERT(this->get_id() !=
\* this_thread::get_id()); then exit_cond_.shared_wait_any_for(cflag::max(), infinity)
owner_join(t) ==
    /\ OwnerCall(t)
    /\ \E id \in owner_get_id :
           opc' = [opc EXCEPT ![t] =
                      IF owner_joinable /\ id # thread_get_id(t) THEN "waiting" ELSE "trapped"]
    /\ UNCHANGED <<pthread_, ohist, joinVars>>
    /\ UNCHANGED <<mtxVars, nonOwner>>

\* join(): the exit condition is set, the wait returns: pthread_ = nullptr;
owner_join_return(t) ==
    /\ opc[t] = "waiting"
    /\ \A u \in Threads : opc[u] # "trapped"
    /\ exit_cond[Holder]
    /\ pthread_' = joined(pthread_)
    /\ opc' = [opc EXCEPT ![t] = "idle"]
    /\ ohist' = "joined"
    /\ UNCHANGED <<ocalls, joinVars>>
    /\ UNCHANGED <<mtxVars, nonOwner>>

\* detach()
owner_detach(t) ==
    /\ OwnerCall(t)
    /\ \A u \in Threads : opc[u] = "idle"
    /\ IF owner_joinable
       THEN /\ exit_condition' = IF ~exit_cond[Holder]
                                   THEN clear_exit_condition(Holder)
                                   ELSE exit_condition
            /\ pthread_' = nullptr
            /\ ohist' = "detached"
       ELSE UNCHANGED <<exit_condition, pthread_, ohist>>
    /\ UNCHANGED <<opc, tstate, jpc, exit_cond, jhigher, path, jsaw>>
    /\ UNCHANGED <<mtxVars, nonOwner>>

\* The owned thread terminates: ~thread().
owner_thread_exit ==
    /\ \A u \in Threads : opc[u] # "trapped"
    /\ ohist # "empty"
    /\ (signal_exit \/ vTaskDelete)

NextOwner ==
    \/ \E t \in {Holder, Joined} : owner_join(t)
    \/ \E t \in {Holder, Joined} : owner_join_return(t)
    \/ owner_detach(Holder)
    \/ owner_thread_exit

SpecOwner == InitOwner /\ [][NextOwner]_vars

(***************************************************************************)
(* cflag::max() / events::max() (condition_flags.h, event_group.hpp) and   *)
(* its use as the thread exit mask (thread.cpp).  Values are sets of bit   *)
(* numbers: bit 0 is the lowest.                                           *)
(***************************************************************************)

\* sizeof(value_type): the kernel's TickType_t has 16, 32 or 64 bits.
TickWidths == {2, 4, 8}

\* The width of int: 16 bits (small ports) or 32 bits.
IntWidths == {16, 32}

\* The value 2^n - 1.
Bits(n) == 0 .. (n - 1)

\* The values 1 << n can have in an int of ib bits.  A shift by the width of
\* int or more is undefined: builds produce 0 or shift by n modulo the width.
shl1(n, ib) == IF n < ib - 1 THEN {{n}} ELSE {{}, {n % ib}}

\* v - 1 in an int of ib bits (v is 0 or a power of two)
minus1(v, ib) == IF v = {} THEN Bits(ib) ELSE Bits(CHOOSE n \in v : TRUE)

\* The conversion of the int v to a value_type of w bytes: sign extension,
\* then truncation.
to_value_type(v, ib, w) ==
    (IF (ib - 1) \in v THEN v \cup (ib .. (8 * w - 1)) ELSE v) \cap Bits(8 * w)

\* max(): (1 << ((sizeof(value_type) - 1) * 8)) - 1
cflag_max(w, ib) == {to_value_type(minus1(s, ib), ib, w) : s \in shl1((w - 1) * 8, ib)}

\* The kernel's eventEVENT_BITS_CONTROL_BYTES: the highest byte of the event bits.
ControlBytes(w) == (8 * (w - 1)) .. (8 * w - 1)

\* The threads that terminate, each with a joiner and an exit condition.
Exits == 1 .. MaxExits

InitMask ==
    /\ InitCv
    /\ tally = NoTally
    /\ ready = FALSE
    /\ scen = "mixed"
    /\ TimeOff
    /\ MutexOff
    /\ FlagsOff
    /\ QueueOff
    /\ SvcOff
    /\ JoinOff
    /\ CsOff
    /\ SemOff
    /\ MakeOff
    /\ OwnerOff
    /\ SvcOff
    /\ tick_bytes \in TickWidths
    /\ int_bits \in IntWidths
    /\ set_mask = [e \in Exits |-> {}]
    /\ wait_mask = [e \in Exits |-> {}]
    /\ xflags = [e \in Exits |-> {}]
    /\ xexit = [e \in Exits |-> "running"]
    /\ xjoin = [e \in Exits |-> "idle"]
    /\ xret = [e \in Exits |-> {}]

\* signal_exit() of thread e: cond->set(cflag::max()); xEventGroupSetBits
\* asserts that no bit of the control bytes is passed.
exit_set(e) ==
    /\ xexit[e] = "running"
    /\ \A o \in Exits : xexit[o] # "trapped" /\ xjoin[o] # "trapped"
    /\ \E m \in cflag_max(tick_bytes, int_bits) :
           /\ set_mask' = [set_mask EXCEPT ![e] = m]
           /\ IF m \cap ControlBytes(tick_bytes) # {}
              THEN xexit' = [xexit EXCEPT ![e] = "trapped"] /\ UNCHANGED xflags
              ELSE /\ xexit' = [xexit EXCEPT ![e] = "signalled"]
                   /\ xflags' = [xflags EXCEPT ![e] = @ \cup m]
    /\ UNCHANGED <<tick_bytes, int_bits, wait_mask, xjoin, xret>>
    /\ UNCHANGED nonMask

\* join() of thread e: exit_cond.shared_wait_any_for(cflag::max(), infinity)
\* is called; xEventGroupWaitBits asserts that no bit of the control bytes
\* is passed.
exit_wait(e) ==
    /\ xjoin[e] = "idle"
    /\ \A o \in Exits : xexit[o] # "trapped" /\ xjoin[o] # "trapped"
    /\ \E m \in cflag_max(tick_bytes, int_bits) :
           /\ wait_mask' = [wait_mask EXCEPT ![e] = m]
           /\ xjoin' = [xjoin EXCEPT ![e] =
                  IF m \cap ControlBytes(tick_bytes) # {} THEN "trapped" ELSE "waiting"]
    /\ UNCHANGED <<tick_bytes, int_bits, set_mask, xflags, xexit, xret>>
    /\ UNCHANGED nonMask

\* The wait returns once a bit of its mask is set: return flags & setflags;
exit_wait_return(e) ==
    /\ xjoin[e] = "waiting"
    /\ \A o \in Exits : xexit[o] # "trapped" /\ xjoin[o] # "trapped"
    /\ xflags[e] \cap wait_mask[e] # {}
    /\ xret' = [xret EXCEPT ![e] = wait_mask[e] \cap xflags[e]]
    /\ xjoin' = [xjoin EXCEPT ![e] = "done"]
    /\ UNCHANGED <<tick_bytes, int_bits, set_mask, wait_mask, xflags, xexit>>
    /\ UNCHANGED nonMask

NextMask ==
    \/ \E e \in Exits : exit_set(e)
    \/ \E e \in Exits : exit_wait(e)
    \/ \E e \in Exits : exit_wait_return(e)

SpecMask == InitMask /\ [][NextMask]_vars

(***************************************************************************)
(* timed_service (timed_service.hpp, timed_service.cpp): construction and  *)
(* the accessors of the kernel timer it wraps.                             *)
(***************************************************************************)

\* static constexpr const char* DEFAULT_NAME = "anonym";
DEFAULT_NAME == "anonym"

\* No name: the constructor's name argument left out, get_name() not called.
NoName == "-"

\* The names callers pass.
Names == {"blink", "poll"}

\* The timed_service objects.
Services == 1 .. MaxServices

\* The owner pointers callers pass.
Owners == {0, 1}

\* The name parameter's value: const char* name = DEFAULT_NAME
name_param(arg) == IF arg = NoName THEN DEFAULT_NAME ELSE arg

\* The name the constructor hands to xTimerCreateStatic.
created_name(name) == DEFAULT_NAME

InitSvc ==
    /\ InitCv
    /\ tally = NoTally
    /\ ready = FALSE
    /\ scen = "mixed"
    /\ TimeOff
    /\ MutexOff
    /\ FlagsOff
    /\ QueueOff
    /\ JoinOff
    /\ CsOff
    /\ SemOff
    /\ MakeOff
    /\ OwnerOff
    /\ MaskOff
    /\ ts_alive = [i \in Services |-> FALSE]
    /\ ts_name = [i \in Services |-> NoName]
    /\ pcTimerName = [i \in Services |-> NoName]
    /\ ts_reload = [i \in Services |-> FALSE]
    /\ ts_owner = [i \in Services |-> 0]
    /\ ts_got = [i \in Services |-> NoName]

\* timed_service(func, owner, period, reloading, name): xTimerCreateStatic
timed_service(i, owner, reloading, arg) ==
    /\ ~ts_alive[i]
    /\ ts_alive' = [ts_alive EXCEPT ![i] = TRUE]
    /\ ts_name' = [ts_name EXCEPT ![i] = arg]
    /\ pcTimerName' = [pcTimerName EXCEPT ![i] = created_name(name_param(arg))]
    /\ ts_reload' = [ts_reload EXCEPT ![i] = reloading]
    /\ ts_owner' = [ts_owner EXCEPT ![i] = owner]
    /\ ts_got' = [ts_got EXCEPT ![i] = NoName]
    /\ UNCHANGED nonSvc

\* get_name(): return pcTimerGetName(handle());
get_name(i) ==
    /\ ts_alive[i]
    /\ ts_got' = [ts_got EXCEPT ![i] = pcTimerName[i]]
    /\ UNCHANGED <<ts_alive, ts_name, pcTimerName, ts_reload, ts_owner>>
    /\ UNCHANGED nonSvc

\* set_reloading(reloading): vTimerSetReloadMode
set_reloading(i, reloading) ==
    /\ ts_alive[i]
    /\ ts_reload' = [ts_reload EXCEPT ![i] = reloading]
    /\ UNCHANGED <<ts_alive, ts_name, pcTimerName, ts_owner, ts_got>>
    /\ UNCHANGED nonSvc

\* set_owner(owner): vTimerSetTimerID
set_owner(i, owner) ==
    /\ ts_alive[i]
    /\ ts_owner' = [ts_owner EXCEPT ![i] = owner]
    /\ UNCHANGED <<ts_alive, ts_name, pcTimerName, ts_reload, ts_got>>
    /\ UNCHANGED nonSvc

\* ~timed_service(): xTimerDelete
timed_service_delete(i) ==
    /\ ts_alive[i]
    /\ ts_alive' = [ts_alive EXCEPT ![i] = FALSE]
    /\ ts_name' = [ts_name EXCEPT ![i] = NoName]
    /\ pcTimerName' = [pcTimerName EXCEPT ![i] = NoName]
    /\ ts_reload' = [ts_reload EXCEPT ![i] = FALSE]
    /\ ts_owner' = [ts_owner EXCEPT ![i] = 0]
    /\ ts_got' = [ts_got EXCEPT ![i] = NoName]
    /\ UNCHANGED nonSvc

NextSvc ==
    \/ \E i \in Services, owner \in Owners, reloading \in BOOLEAN, arg \in Names \cup {NoName} :
           timed_service(i, owner, reloading, arg)
    \/ \E i \in Services : get_name(i)
    \/ \E i \in Services, reloading \in BOOLEAN : set_reloading(i, reloading)
    \/ \E i \in Services, owner \in Owners : set_owner(i, owner)
    \/ \E i \in Services : timed_service_delete(i)

SpecSvc == InitSvc /\ [][NextSvc]_vars

(***************************************************************************)
(* Properties.                                                             *)
(***************************************************************************)

\* No notification is stored in the relay and none is being handled by a
\* thread that has received one: nobody blocked on the relay is woken until
\* notify_one / notify_all is called again.
Quiet == queue_ = <<>> /\ \A t \in Threads : pc[t] # "relock"

InWait(t) == pc[t] \in {"pop", "relock"}

\* C1: with N >= 1 threads blocked in wait(lock), no later wait and exactly
\* one notify_all, every one of them eventually returns from wait; the first
\* woken waiter receives N and every woken waiter hands the remaining count on,
\* so the count in the relay or in the hands of the woken waiter is always the
\* number of threads still registered.
C1_NotifyAllWakesEveryWaiter ==
    /\ \A t \in Threads :
          (scen = "all1" /\ InWait(t)) ~> (scen # "all1" \/ ~InWait(t))
    /\ [](scen = "all1" =>
             /\ \A t \in Threads :
                   pc[t] = "relock" => success[t] /\ rx_waiters[t] = waiters_
             /\ queue_ # <<>> => Head(queue_) = waiters_)

\* C1 witness: after the single notify_all one waiter has returned and a
\* second one has received the chained count 1.
C1_Witness ==
    /\ scen = "all1"
    /\ \E t, u \in Threads :
          /\ t # u
          /\ pc[u] = "cs" /\ status[u] = "no_timeout"
          /\ pc[t] = "relock" /\ success[t] /\ rx_waiters[t] = 1

\* C2: a thread that was registered as a waiter when notify_all was called
\* returns from wait: it is never left blocked on the relay while no
\* notification is stored or being handed on.
C2_NotifyAllReachesRegistered ==
    \A t \in Threads : (sig[t] = "all" /\ pc[t] = "pop") => ~Quiet

\* C3: k notify_one calls, each made while more threads are blocked than
\* notifications are outstanding, release exactly k threads: once the relay
\* has come to rest every such call has been answered by one wake.
C3_NotifyOneWakesOne ==
    (scen = "ones" /\ Quiet) => debt = 0

\* C4: the notification of a notify_one is received only by a thread that was
\* blocked in wait when notify_one was called.
C4_NotifyOneWakesEarlierWaiter ==
    [][\A t \in Threads :
          (pc[t] = "pop" /\ pc'[t] = "relock" /\ success'[t]) => t \in elig]_vars

\* C5: a waiter that has released the lock and is the only one registered when
\* notify_one is called, whether it has blocked on the relay yet or not,
\* returns no_timeout: it neither times out nor stays blocked.
C5_NoLostWakeup ==
    \A t \in Threads :
        sig[t] = "sole" =>
            /\ status[t] # "timeout"
            /\ pc[t] = "relock" => success[t]
            /\ pc[t] = "pop" => ~Quiet

\* C6: from the return of wait / wait_for (notified or timed out) to the next
\* unlock the thread is the holder of the mutex, as is every thread inside
\* its critical section, so no two threads are there at once.
C6_WaitReturnsWithLock ==
    /\ \A t \in Threads : status[t] # "none" => holder = t
    /\ \A t \in Threads : pc[t] = "cs" => holder = t
    /\ Cardinality({t \in Threads : status[t] # "none" \/ pc[t] = "cs"}) <= 1

\* C6 witness: a thread has returned timeout and is in its critical section
\* while another one, already notified, waits to reacquire the mutex.
C6_Witness ==
    \E t, u \in Threads :
        /\ t # u
        /\ pc[t] = "cs" /\ status[t] = "timeout"
        /\ pc[u] = "relock" /\ success[u]

\* C7: a notify_one or notify_all call made while waiters_ = 0 changes neither
\* the relay nor the waiter counter.
C7_NotifyWithoutWaitersIsNoOp ==
    [][\A t \in Threads :
          (waiters_ = 0 /\ (NotifyOne(t) \/ NotifyAll(t)))
              => (queue_' = queue_ /\ waiters_' = waiters_)]_vars

\* C7 witness: two notify calls were made with nobody waiting, and the thread
\* that started to wait afterwards finds the relay empty.
C7_Witness ==
    /\ scen = "fresh"
    /\ calls = 3
    /\ Cardinality(Registered) = 1
    /\ Cardinality(Blocked) = 1
    /\ waiters_ = 1
    /\ queue_ = <<>>

\* C8: a wait returns no_timeout only if notify_one or notify_all was called
\* while the thread was registered, and the relay is empty whenever no thread
\* is registered (waiters_ = 0).
C8_NoStaleNotification ==
    /\ waiters_ = 0 => queue_ = <<>>
    /\ \A t \in Threads :
          status[t] = "no_timeout" => sig[t] \in {"one", "sole", "all"}

\* C9: wait_for(lock, 0 ticks), called with an empty relay and not notified
\* during the call, does not block on the relay and returns timeout with the
\* lock held and its own registration removed from waiters_.
C9_ZeroWaitTimesOut ==
    \A t \in Threads :
        /\ (pc[t] = "pop" /\ rel_time[t] = "zero")
              => ENABLED (wait_for_pop(t) \/ wait_for_timeout(t))
        /\ (status[t] # "none" /\ rel_time[t] = "zero" /\ sig[t] = "none")
              => /\ status[t] = "timeout"
                 /\ holder = t
                 /\ waiters_ = Cardinality(Registered)

\* C9 witness: a zero wait has returned timeout while another thread is
\* registered.
C9_Witness ==
    \E t \in Threads :
        /\ pc[t] = "cs" /\ status[t] = "timeout"
        /\ rel_time[t] = "zero" /\ sig[t] = "none"
        /\ waiters_ = 1

\* C10: a predicate wait returns the value the predicate has at the return;
\* wait_until / wait_for return false only after a base wait that timed out,
\* and wait(lock, pred) returns only when the predicate holds.
C10_PredicateWaits ==
    \A t \in Threads :
        /\ pret[t] # "none" => holder = t
        /\ pret[t] = "true" => pred
        /\ pret[t] = "void" => pred
        /\ pret[t] = "false" => (~pred /\ status[t] = "timeout")

\* C10 witness: wait_until returns true after its base wait timed out, the
\* predicate having become true in the meantime.
C10_Witness ==
    \E t \in Threads : pret[t] = "true" /\ status[t] = "timeout"

\* C11: a thread in a deadline wait is never blocked once its deadline has
\* been reached: the wait time handed to the kernel ends at the deadline also
\* when the deadline has passed before abs_time - now() is computed.
C11_DeadlineWaitEndsAtDeadline ==
    tpc = "blocked" => clock < due

\* C12: on a mutex, unlock called by a thread that is not the recorded holder
\* (another thread holds it, or nobody does) triggers the assertion and leaves
\* the holder as it was.
C12_ForeignUnlockAsserts ==
    [][\A t \in Threads :
          (~is_recursive /\ unlock(t) /\ get_locking_thread # t)
              => (mpc'[t] = "trapped" /\ holder' = holder)]_vars

\* C13: at most one thread holds the mutex: a thread whose lock or try_lock
\* succeeded is the holder until it unlocks; try_lock returned true exactly
\* when the mutex was free and made the caller the holder, and false, without
\* blocking, when it was held; get_locking_thread() is nullptr exactly when no
\* thread has it locked.
C13_OneHolder ==
    /\ \A t \in Threads :
          /\ depth[t] > 0 => get_locking_thread = t
          /\ mret[t] = "true" => (mseen[t] = nullptr /\ get_locking_thread = t)
          /\ mret[t] = "false" => (mseen[t] # nullptr /\ mpc[t] = "idle")
    /\ Cardinality({t \in Threads : depth[t] > 0}) <= 1
    /\ get_locking_thread = nullptr <=> \A t \in Threads : depth[t] = 0

\* C13 witness: one thread got the mutex by try_lock, a second one's try_lock
\* returned false, a third one is blocked in lock().
C13_Witness ==
    \E t, u, v \in Threads :
        /\ ~is_recursive
        /\ holder = t /\ mret[t] = "true"
        /\ mret[u] = "false" /\ mseen[u] = t
        /\ v # t /\ mpc[v] = "locking"

\* C14: the holder of a recursive_mutex is never blocked in lock(), and a
\* try_lock on a recursive_mutex returns false only when another thread holds
\* it.
C14_RecursiveRelock ==
    is_recursive =>
        \A t \in Threads :
            /\ mpc[t] = "locking" => holder # t
            /\ mret[t] = "false" => (mseen[t] # t /\ mseen[t] # nullptr)

C16_TimeoutReturnsZero ==
    \A t \in Threads :
        /\ fret[t] \subseteq fwait[t].flags
        /\ fdone[t] = "timeout" => fret[t] = {}
        /\ fret[t] # {} => fdone[t] = "met"

\* C17: after set(mask) (which no consuming waiter took) the same thread's
\* shared wait-any for mask returns mask at once, a second one too, a
\* consuming wait-any returns mask and leaves it cleared, and a further wait
\* for mask with a finite wait time blocks and returns the zero sentinel.
C17_SetWaitRoundTrip ==
    /\ trip.stage \in {1, 2, 3} => trip.mask \subseteq bits
    /\ trip.stage \in {2, 3, 4} =>
          /\ fpc[trip.who] = "idle"
          /\ fdone[trip.who] = "met"
          /\ fret[trip.who] = trip.mask
    /\ trip.stage = 4 => (trip.mask \cap bits) = {}
    /\ trip.stage = 5 =>
          \/ fpc[trip.who] = "blocked"
          \/ fdone[trip.who] = "timeout" /\ fret[trip.who] = {}

\* C17 witness: the whole sequence has been run for the mask {0} while flag 1
\* was set all along.
C17_Witness ==
    /\ trip.stage = 5
    /\ trip.mask = {0}
    /\ bits = {1}
    /\ fpc[trip.who] = "idle"
    /\ fdone[trip.who] = "timeout"

\* C18: a set called from an interrupt for a thread blocked in an exclusive
\* wait is not lost: as long as the thread is still blocked, a pended request
\* that satisfies its wait is in the timer service's queue.
C18_IsrSetNotLost ==
    \A t \in owed :
        fpc[t] = "blocked" =>
            \E i \in 1 .. Len(tq) : wait_condition(tq[i], fwait[t])

\* A step in which thread t's wait returned changes the flags only if the
\* wait is exclusive and its condition was met, and then clears only flags of
\* its mask.
WaitFrame(t) ==
    /\ bits' \subseteq bits
    /\ bits' # bits =>
          /\ fwait'[t].exclusive
          /\ fdone'[t] = "met"
          /\ (bits \ bits') \subseteq fwait'[t].flags

\* A step that set the flags f clears only flags of the masks of the exclusive
\* waits it ended, and every shared wait it ended returns the flags of its
\* mask as they were set.
SetFrame(f) ==
    /\ bits' \subseteq (bits \cup f)
    /\ ((bits \cup f) \ bits') \subseteq
          UNION {fwait[t].flags :
                   t \in {u \in Threads : /\ fpc[u] = "blocked" /\ fpc'[u] = "idle"
                                          /\ fwait[u].exclusive}}
    /\ \A t \in Threads :
          (fpc[t] = "blocked" /\ fpc'[t] = "idle" /\ ~fwait[t].exclusive)
              => fret'[t] = fwait[t].flags \cap (bits \cup f)

\* C19: a shared wait never changes the flags, so all shared waiters a set
\* wakes observe the flags it set; an exclusive wait changes the flags only
\* when its condition is met, and then clears only flags of its own mask.
C19_WaitFrame ==
    [][/\ \A t \in Threads :
             ((\E w \in Waits : flags_wait(t, w)) \/ flags_wait_timeout(t))
                 => WaitFrame(t)
       /\ \A f \in Masks :
             ((\E t \in Threads : flags_set(t, f)) \/ (timer_task /\ Head(tq) = f))
                 => SetFrame(f)]_vars

\* C19 witness: one set has ended two shared waits, both returned the same
\* flags, and the flags are still set.
C19_Witness ==
    \E t, u \in Threads :
        /\ t # u
        /\ fdone[t] = "met" /\ ~fwait[t].exclusive
        /\ fdone[u] = "met" /\ ~fwait[u].exclusive
        /\ fret[t] # {} /\ fret[t] = fret[u]
        /\ fret[t] \subseteq bits

\* C20: queue::full() returns true if and only if the number of stored
\* elements equals the queue's capacity, in thread context and in interrupt
\* context alike.
C20_FullIffAtCapacity ==
    qop = "full" => (qret <=> Len(items) = max_size)

\* C21: queue::empty() returns true if and only if the queue holds no
\* element, in thread context and in interrupt context alike.
C21_EmptyIffNoElement ==
    qop = "empty" => (qret <=> Len(items) = 0)

\* C22: no call that takes a wait time blocks in interrupt context: called
\* from an interrupt handler with a nonzero wait time, push_front, push_back,
\* pop_front and peek_front hit the assertion.
C22_NoWaitInIsr ==
    (/\ qin_isr
     /\ qwait # 0
     /\ qop \in {"push_back", "push_front", "pop_front", "peek_front"})
        => qpc = "trapped"

\* C23: join() returns once the joined thread has terminated, whatever the
\* interleaving of the join with the termination: a joiner is not left
\* blocked on an exit condition that was never set.
C23_JoinReturns ==
    \A j \in Joiners :
        (jpc[j] = "waiting" /\ tstate = "terminated") => exit_cond[j]

\* C24: join() does not return before the joined thread has been deleted:
\* when it returns the thread's state is terminated.
C24_JoinWaitsForDeletion ==
    \A j \in Joiners : jpc[j] = "done" => jsaw[j] = "terminated"

\* C25: a registered exit observer is never replaced: a registration attempt
\* while the slot is occupied leaves the stored observer unchanged.
C25_ObserverNotReplaced ==
    [][exit_condition # nullptr => exit_condition' = exit_condition]_vars

\* C26 (as claimed): for every sequence of lock / unlock calls in which each
\* guard's lock / unlock pair is balanced, interrupts stay disabled while a
\* guard is locked, and after the last unlock the state is the one before
\* the first lock.
C26_BalancedGuardsCompose ==
    /\ cs_locked # <<>> => basepri = 1
    /\ (cs_locked = <<>> /\ cs_calls > 0) => <<uxCriticalNesting, basepri>> = cs_before

\* C26 (amended): the same for every sequence in which the guards are unlocked
\* in the reverse order of their locking, and in thread context for every
\* balanced sequence.
C26_NestedGuardsCompose ==
    (cs_nested \/ ~cs_in_isr) =>
        /\ cs_locked # <<>> => basepri = 1
        /\ (cs_locked = <<>> /\ cs_calls > 0) => <<uxCriticalNesting, basepri>> = cs_before

\* C26 witness: an interrupt handler that started with interrupts enabled has
\* locked and unlocked three nested guards.
C26_Witness ==
    /\ cs_in_isr
    /\ cs_nested
    /\ cs_calls = 6
    /\ cs_locked = <<>>
    /\ cs_before = <<0, 0>>
    /\ restore_ = [g \in Guards |-> IF g = 1 THEN 0 ELSE 1]

\* C27: the waiter counter equals the number of threads that are inside
\* wait_for between its increment and its decrement: it never underflows, is 0
\* when no thread is inside a wait, and the destructor's assertion fails
\* exactly when a thread is still waiting.
C27_WaitersCountsWaitingThreads ==
    /\ waiters_ = Cardinality({t \in Threads : InWait(t)})
    /\ destructor_asserts <=> (\E t \in Threads : InWait(t))

\* C27 witness: two threads are inside wait_for, one blocked on the relay and
\* one woken and about to lock again, while a third holds the mutex.
C27_Witness ==
    \E t, u, v \in Threads :
        /\ pc[t] = "pop"
        /\ pc[u] = "relock"
        /\ holder = v
        /\ v \notin {t, u}
        /\ waiters_ = 2

\* C28: every write to the waiter counter is made by a thread that holds the
\* mutex: the increment by the holder before it unlocks, the decrement by the
\* waiter after it has locked again, whether its wait succeeded or timed out.
C28_CounterWrittenUnderMutex ==
    [][waiters_' # waiters_ =>
          \E t \in Threads :
              \/ /\ holder = t
                 /\ pc[t] # "pop" /\ pc'[t] = "pop"
                 /\ waiters_' = waiters_ + 1
              \/ /\ holder = nullptr /\ holder' = t
                 /\ pc[t] = "relock" /\ pc'[t] # "relock"
                 /\ waiters_' = waiters_ - 1]_vars

\* C28 witness: a wait that timed out has returned holding the mutex, its
\* decrement done, while another thread is still waiting.
C28_Witness ==
    \E t \in Threads :
        /\ holder = t
        /\ status[t] = "timeout"
        /\ pc[t] = "cs"
        /\ waiters_ > 0

\* Thread t's take returns in this step: at once, woken, or timed out.
TakeStep(t) ==
    \/ (\E timeout \in Durations : sem_take(t, timeout)) /\ spc'[t] = "idle"
    \/ sem_take_wake(t)
    \/ sem_take_timeout(t)

\* The take of t that returns in this step has decremented the count by one
\* if it returns true, and left it unchanged if it returns false.
TakeFrame(t) == IF sret'[t] THEN count' = count - 1 ELSE count' = count

\* C29: the semaphore's count stays within [0, max] under every sequence of
\* acquire / release calls; a take that times out returns false and leaves
\* the count unchanged, and a successful take returns true and decrements
\* the count by exactly one.
C29_CountInRange ==
    /\ [](count \in 0 .. sem_max)
    /\ [][/\ \A t \in SemThreads : TakeStep(t) => TakeFrame(t)
          /\ \A t \in SemThreads : sem_take_timeout(t) => ~sret'[t]
          /\ (sem_take_isr("zero") => TakeFrame(isr))]_vars

\* C29 witness: on a semaphore of maximum 2 one thread's take has succeeded
\* and the other's, blocked with a finite wait time, has timed out.
C29_Witness ==
    \E t, u \in SemThreads :
        /\ sem_max = 2
        /\ count = 0
        /\ slast[t] = "take" /\ sret[t]
        /\ slast[u] = "take" /\ ~sret[u] /\ stimeout[u] = "finite"
        /\ spc[u] = "idle"

\* C30: when the kernel cannot allocate the thread, make_thread returns
\* nullptr, without trapping and without creating a thread.
C30_CreateFailureIsAValue ==
    mk_res = "fail" => (mk_ret = "nullptr" /\ ~mk_trapped)

\* C31: after a successful receive of r from the relay, wait_for decrements
\* waiters_ and then computes remaining = min(r - 1, waiters_) from the
\* decremented counter; it overwrites the relay with remaining exactly when
\* remaining > 0 and otherwise leaves the relay as it is, so a received 1 is
\* never chained.
C31_ChainAfterDecrement ==
    [][\A t \in Threads :
          (pc[t] = "relock" /\ pc'[t] # "relock" /\ success[t]) =>
              LET r == rx_waiters[t]
                  rest == Min(r - 1, waiters_')
              IN  /\ waiters_' = waiters_ - 1
                  /\ queue_' = IF rest > 0 THEN <<rest>> ELSE queue_
                  /\ (r = 1 => queue_' = queue_)]_vars

\* Two threads wait, notify_all sends 2, the first to receive it has chained
\* 1 to the other.
C31_Witness ==
    \E t \in Threads :
        /\ holder = t
        /\ pc[t] = "cs"
        /\ status[t] = "no_timeout"
        /\ calls = 3
        /\ waiters_ = 1
        /\ queue_ = <<1>>

\* C32: the relay holds at most one value; a notify_one / notify_all call
\* made while the relay is occupied leaves the stored value as it is, no
\* notify call changes waiters_, and a stored value is overwritten only by
\* the chaining step of a waiter that received a value.
C32_RelayHoldsOne ==
    /\ [](Len(queue_) <= 1)
    /\ [][((\E t \in Threads : NotifyOne(t) \/ NotifyAll(t)) =>
               (waiters_' = waiters_ /\ (queue_ # <<>> => queue_' = queue_)))
          /\ ((queue_ # <<>> /\ queue_' # <<>> /\ queue_' # queue_) =>
                 \E t \in Threads :
                     pc[t] = "relock" /\ pc'[t] # "relock" /\ success[t])]_vars

\* One thread waits without a timeout, notify_one sends 1, and a second
\* notify call finds the relay occupied: the 1 is still there, unreceived.
C32_Witness ==
    \E t, u \in Threads :
        /\ pc[t] = "pop"
        /\ holder = u
        /\ pc[u] = "cs"
        /\ waiters_ = 1
        /\ queue_ = <<1>>
        /\ calls = 3
        /\ debt = 1
        /\ scen = "mixed"

\* Thread t's give returns in this step.
GiveReturns(t) == sem_give_step(t) /\ spc'[t] = "idle"

\* C33: give(n), which release(n) calls, makes single gives and stops at the
\* first that fails: if no other caller changes the count meanwhile, the
\* count becomes min(count + n, max) and give returns true exactly when
\* count + n <= max; release(0) changes nothing; a binary_semaphore
\* constructed with desired = d starts with the count min(d, 1).
C33_ReleaseGivesUpToMax ==
    [][/\ \A t \in SemThreads :
              (GiveReturns(t) /\ sgive[t].alone) =>
                  LET c == sgive[t].from
                      n == sgive[t].n
                  IN  /\ count' = Min(c + n, sem_max)
                      /\ sret'[t] <=> c + n <= sem_max
                      /\ n = 0 => count' = c
                      /\ sgive[t].ctor => count' = Min(n, 1)
       /\ \A n \in Updates :
              sem_give_isr(n) =>
                  /\ count' = Min(count + n, sem_max)
                  /\ sret'[isr] <=> count + n <= sem_max]_vars

\* binary_semaphore(2) has been constructed: its give(2) stopped at the
\* second give, which failed, and the count is 1.
C33_Witness ==
    /\ sem_max = 1
    /\ scalls = 0
    /\ spc[1] = "idle"
    /\ slast[1] = "give"
    /\ ~sret[1]
    /\ count = 1

\* C34: on both termination paths the terminating thread signals the exit
\* observer registered at that moment, in one step with its lookup, before
\* the kernel deletes the thread; nothing else sets an exit condition, and
\* without a registered observer nothing is signalled.
C34_SignalBeforeDelete ==
    [][/\ (tstate # "terminated" /\ tstate' = "terminated") => tstate = "signalled"
       /\ (tstate = "running" /\ tstate' # "running") =>
              /\ tstate' = "signalled"
              /\ \A j \in Threads : exit_cond'[j] <=> (exit_cond[j] \/ exit_condition = j)
       /\ exit_cond' # exit_cond => (tstate = "running" /\ tstate' = "signalled")]_vars

\* The thread function returned (vTaskExitHandler), the joiner that had
\* registered was signalled and its join() returned, the thread is deleted.
C34_Witness ==
    \E j \in Joiners :
        /\ path = "self"
        /\ tstate = "terminated"
        /\ exit_condition = j
        /\ exit_cond[j]
        /\ jpc[j] = "done"
        /\ jsaw[j] = "terminated"

\* Thread t leaves wait_for in this step and its chaining step writes the relay.
Chains(t) ==
    /\ pc[t] = "relock"
    /\ pc'[t] # "relock"
    /\ success[t]
    /\ rem_waiters(rx_waiters[t], waiters_') > 0

C36_NoWakeupsBeyondIssued == tally.woken <= tally.issued

\* Two waiters, a notify_all accepted for both, and both have returned
\* no_timeout: the second through the chained value.
C36_Witness ==
    /\ tally.issued = 2
    /\ tally.woken = 2
    /\ calls = 3
    /\ waiters_ = 0
    /\ queue_ = <<>>

\* C37: a wait_for whose receive from the relay timed out does not write the
\* relay: the receive leaves it as it is, and the rest of the call takes the
\* lock again, decrements waiters_ and returns timeout.
C37_TimedOutWaiterLeavesRelay ==
    [][\A t \in Threads :
          /\ (pc[t] = "pop" /\ pc'[t] = "relock" /\ ~success'[t]) =>
                 (queue_' = queue_ /\ waiters_' = waiters_)
          /\ (pc[t] = "relock" /\ pc'[t] # "relock" /\ ~success[t]) =>
                 /\ queue_' = queue_
                 /\ waiters_' = waiters_ - 1
                 /\ holder' = t
                 /\ status'[t] = "timeout"]_vars

\* A waiter timed out, notify_all then wrote 2 for it and another waiter, and
\* it has returned timeout: the 2 is still in the relay.
C37_Witness ==
    \E t \in Threads :
        /\ holder = t
        /\ pc[t] = "cs"
        /\ status[t] = "timeout"
        /\ queue_ = <<2>>
        /\ waiters_ = 1

\* C38: thread_owner::joinable() is true exactly when the owner refers to a
\* thread that has been neither joined nor detached; an owner without a
\* thread, and one whose join() or detach() has returned, is not joinable
\* and has the id 0; join() on an owner that is not joinable, or called by
\* the owned thread itself, fails its assertion.
C38_OwnerJoinable ==
    /\ [](owner_joinable <=> ohist = "owning")
    /\ [](ohist \in {"empty", "joined", "detached"} =>
              (~owner_joinable /\ owner_get_id = {0}))
    /\ [][\A t \in {Holder, Joined} :
              (owner_join(t) /\ (~owner_joinable \/ t = pthread_)) =>
                  opc'[t] = "trapped"]_vars

\* The owned thread has terminated and the holder's join() has returned.
C38_Witness ==
    /\ ohist = "joined"
    /\ tstate = "terminated"
    /\ opc[Holder] = "idle"
    /\ pthread_ = nullptr

\* C39: for a tick width of w bytes (2, 4, 8), max() is 2^(8 * (w - 1)) - 1,
\* all bits but those of the highest byte, and this is the mask that
\* signals and awaits the thread exit.
C39_MaxIsAllButHighestByte ==
    \A e \in Exits :
        /\ xexit[e] # "running" => set_mask[e] = Bits(8 * (tick_bytes - 1))
        /\ xjoin[e] # "idle" => wait_mask[e] = Bits(8 * (tick_bytes - 1))

\* C40: get_name() of a timed_service returns the name argument its
\* constructor was given, and the default name only when none was given.
C40_NameIsReported ==
    \A i \in Services :
        (ts_alive[i] /\ ts_got[i] # NoName) =>
            ts_got[i] = (IF ts_name[i] = NoName THEN DEFAULT_NAME ELSE ts_name[i])

=============================================================================
